---- MODULE Spec2Model ----
(***************************************************************************)
(* Branch-and-cut callback of the VNF placement solver                     *)
(* (src/src/solver/callback.cpp): cut pool, dynamic separation, lazy       *)
(* availability nogoods with lifting, and the two-phase matheuristic.      *)
(*                                                                         *)
(* Real numbers (availabilities, relaxation values, objectives) are exact  *)
(* rationals <<numerator, denominator>>; floating-point rounding is not    *)
(* modelled.                                                               *)
(***************************************************************************)
EXTENDS Integers, Sequences, FiniteSets, TLC

(***************************************************************************)
(* Bounds of the model.                                                    *)
(***************************************************************************)
\* number of substrate nodes
NbNodes == 2
\* relaxation values and uniform draws are the multiples of 1/Grain in [0,1]
Grain == 2
\* events are dispatched while the user-cut counter is below MaxUserCuts
MaxUserCuts == 1
\* candidate events are dispatched while the lazy counter is below MaxLazy
MaxLazy == 1
\* number of workers of the host that invoke the callback concurrently
NbWorkers == 2
\* number of invocations each of these workers makes
MaxInvocations == 1

(***************************************************************************)
(* Program constants.                                                      *)
(***************************************************************************)
\* all cut coefficients, bounds and left-hand sides are integers in units
\* of EPS = 1e-4, so one unit is the tolerance of the pool check
EpsInv == 10000
\* -log(1/2) in units of 1e-4
LN2 == 6931

\* values of the variables are integers in units of 1/XUnit, so that
\* XUnit is the value 1 and XUnit - 1 lies strictly between 1 - EPS and 1
XUnit == 4 * EpsInv
NearOne == XUnit - 1
\* EPS in units of 1/XUnit
EpsX == XUnit \div EpsInv

(***************************************************************************)
(* Exact rational arithmetic.                                              *)
(***************************************************************************)
RECURSIVE GCD(_, _)
GCD(a, b) == IF b = 0 THEN a ELSE GCD(b, a % b)

Abs(a) == IF a < 0 THEN 0 - a ELSE a

Rat(n, d) == LET g == GCD(Abs(n), d) IN <<n \div g, d \div g>>

ROne == <<1, 1>>
RZero == <<0, 1>>
\* the operands are bound once (a, b), so that nested operations are not
\* evaluated again at each use
RMul(p, q) == CHOOSE r \in {Rat(a[1] * b[1], a[2] * b[2]) : a \in {p}, b \in {q}} : TRUE
RDiv(p, q) == CHOOSE r \in {Rat(a[1] * b[2], a[2] * b[1]) : a \in {p}, b \in {q}} : TRUE
RAdd(p, q) ==
    CHOOSE r \in {Rat(a[1] * b[2] + b[1] * a[2], a[2] * b[2]) : a \in {p}, b \in {q}} : TRUE
RSub(p, q) ==
    CHOOSE r \in {Rat(a[1] * b[2] - b[1] * a[2], a[2] * b[2]) : a \in {p}, b \in {q}} : TRUE
RLt(p, q) == p[1] * q[2] < q[1] * p[2]
RLe(p, q) == p[1] * q[2] <= q[1] * p[2]
RCompl(p) == RSub(ROne, p)

RECURSIVE Log2(_)
Log2(n) == IF n <= 1 THEN 0 ELSE 1 + Log2(n \div 2)

\* -log(q) in units of 1e-4 for a failure probability q = 1/2^m
NegLog(q) == Log2(q[2]) * LN2

(***************************************************************************)
(* The instance: nodes, VNF types, demands (Data, loaded once).            *)
(***************************************************************************)
Nodes == 0 .. (NbNodes - 1)

\* NodeIt visits the nodes of the graph from the last one added to the first
NodeOrder == [j \in 1 .. NbNodes |-> NbNodes - j]

\* VNF type of each section of each demand: demand 0 is a chain of two
\* sections, demand 1 a chain of one
VNFChain == <<<<0, 1>>, <<0>>>>

Demands == 0 .. (Len(VNFChain) - 1)
NbVNFs(k) == Len(VNFChain[k + 1])
Sections(k) == 0 .. (NbVNFs(k) - 1)
getVNF_i(k, i) == VNFChain[k + 1][i + 1]
Vnfs == {0, 1}

\* the assignment variables x[k][i][v] and the placement variables y[v][f]
XVars == UNION {{k} \X Sections(k) \X Nodes : k \in Demands}
YVars == Nodes \X Vnfs

VARIABLES
    thread_flag,        \* Callback::thread_flag: 0 when free, else the worker holding it
    constraints,        \* Model::constraints: the VNF assignment constraints
    data,               \* Data: node, demand and VNF attributes (immutable)
    input,              \* Input: the activation flags of the parameter file
    cutPool,            \* Callback::cutPool, built by the constructor
    xSol,               \* Callback::xSol
    ySol,               \* Callback::ySol
    objSol,             \* Callback::objSol
    remainingCapacity,  \* Callback::remainingCapacity
    nbCuts,             \* Callback::nbCuts
    nbLazyConstraints,  \* Callback::nbLazyConstraints
    nb_cuts_avail_heuristic, \* Callback::nb_cuts_avail_heuristic
    ctx,                \* the Context of the invocation in progress
    pc,                 \* position of the invocation in progress
    loc,                \* locals of the invocation in progress
    host,               \* what the invocation has submitted to the host
    trace               \* the operations the invocation has executed, in order

vars == <<thread_flag, constraints, data, input, cutPool, xSol, ySol, objSol, remainingCapacity, nbCuts,
          nbLazyConstraints, nb_cuts_avail_heuristic, ctx, pc, loc, host, trace>>

(***************************************************************************)
(* Data helpers (availability mathematics).                                *)
(***************************************************************************)
getAvailability(v) == data.avail[v]
getCapacity(v) == data.capacity[v]
getReqAvail(k) == data.reqAvail[k]
getBandwidth(k) == data.bandwidth[k]
getConsumption(f) == data.consumption[f]
getPlacementCost(v, f) == data.cost[<<v, f>>]

\* probability that every node of the set S fails
RECURSIVE getFailureProb(_)
getFailureProb(S) ==
    IF S = {} THEN ROne
    ELSE LET v == CHOOSE u \in S : TRUE
         IN RMul(RCompl(getAvailability(v)), getFailureProb(S \ {v}))

\* product of the availabilities of a sequence of sections
RECURSIVE getChainAvailability(_)
getChainAvailability(sa) ==
    IF sa = <<>> THEN ROne ELSE RMul(Head(sa), getChainAvailability(Tail(sa)))

\* position of node v in the ranking by decreasing availability
getNodeRankPosition(v) ==
    Cardinality({u \in Nodes :
        \/ RLt(getAvailability(v), getAvailability(u))
        \/ getAvailability(u) = getAvailability(v) /\ u < v})

getAvailNodeRank ==
    [p \in 1 .. NbNodes |-> CHOOSE v \in Nodes : getNodeRankPosition(v) = p - 1]

\* (1 - a)^n
RECURSIVE FailPow(_, _)
FailPow(a, n) == IF n = 0 THEN ROne ELSE RMul(RCompl(a), FailPow(a, n - 1))

\* least number of nodes of availability a whose parallel availability
\* reaches req
RECURSIVE MinNbFrom(_, _, _)
MinNbFrom(req, a, n) ==
    IF RLe(req, RCompl(FailPow(a, n))) THEN n ELSE MinNbFrom(req, a, n + 1)

getMinNbNodes_a(req, a) == MinNbFrom(req, a, 1)

\* availability of a chain of p sections sharing n nodes of availability a
\* as evenly as possible
EvenChain(a, n, p) ==
    LET q == n \div p
        r == n % p
    IN getChainAvailability(
           [j \in 1 .. p |-> RCompl(FailPow(a, IF j <= r THEN q + 1 ELSE q))])

RECURSIVE VnfLBFrom(_, _, _, _)
VnfLBFrom(req, a, p, n) ==
    IF RLe(req, EvenChain(a, n, p)) THEN n ELSE VnfLBFrom(req, a, p, n + 1)

\* lower bound on the number of VNFs installed over p sections of a chain
\* of required availability req
getVnfLB(req, p) == VnfLBFrom(req, getAvailability(getAvailNodeRank[1]), p, p)

RECURSIVE VnfLBUpTo(_, _, _, _, _)
VnfLBUpTo(req, a, p, n, max) ==
    IF n > max THEN 0 - 1
    ELSE IF RLe(req, EvenChain(a, n, p)) THEN n
    ELSE VnfLBUpTo(req, a, p, n + 1, max)

\* the same bound when only the nodes of U are used; -1 when U cannot reach req
getVnfLB_U(U, p, req) ==
    IF U = {} THEN 0 - 1
    ELSE LET best == CHOOSE u \in U :
                         \A w \in U : getNodeRankPosition(u) <= getNodeRankPosition(w)
         IN VnfLBUpTo(req, getAvailability(best), p, p, p * Cardinality(U))

(***************************************************************************)
(* Cuts: coefficients and bounds in units of 1e-4; hasUb is FALSE for an   *)
(* upper bound of IloInfinity.                                             *)
(***************************************************************************)
RECURSIVE SumF(_, _)
SumF(f, S) ==
    IF S = {} THEN 0
    ELSE LET e == CHOOSE u \in S : TRUE IN f[e] + SumF(f, S \ {e})

RECURSIVE Flatten(_)
Flatten(ss) == IF ss = <<>> THEN <<>> ELSE Head(ss) \o Flatten(Tail(ss))

Max(a, b) == IF a > b THEN a ELSE b

\* the (demand, section) pairs and the (demand, section, node) triples in
\* the order the nested loops visit them
KIList ==
    Flatten([k \in 1 .. Len(VNFChain) |->
                [i \in 1 .. NbVNFs(k - 1) |-> <<k - 1, i - 1>>]])
KIVList ==
    Flatten([j \in 1 .. Len(KIList) |->
                [n \in 1 .. NbNodes |-> <<KIList[j][1], KIList[j][2], NodeOrder[n]>>]])

IloRange(name, lb, coef) ==
    [name |-> name, lb |-> lb, coef |-> coef, hasUb |-> FALSE, ub |-> 0]

\* c[v] of addAvailabilityCoverConstraints
NodeCoverC(k, v) == getMinNbNodes_a(getReqAvail(k), getAvailability(v))

\* a mutation of NodeCoverCoeff: the coefficient of a better-ranked node
\* without the + 1
NodeCoverCoeffShort(k, v, j) ==
    IF getNodeRankPosition(j) < getNodeRankPosition(v)
    THEN Max(NodeCoverC(k, v) - NodeCoverC(k, j), 1)
    ELSE 1

\* a mutation of NodeCoverCoeff: the better-ranked nodes get no larger
\* coefficient
NodeCoverCoeffFlat(k, v, j) ==
    IF getNodeRankPosition(j) < getNodeRankPosition(v) THEN 1 ELSE 1

NodeCoverCoeff(k, v, j) ==
    IF getNodeRankPosition(j) < getNodeRankPosition(v)
    THEN Max(NodeCoverC(k, v) - NodeCoverC(k, j) + 1, 1)
    ELSE 1

\* a mutation of NodeCoverEmitted: a cut also when c does not increase
NodeCoverEmittedNotLess(k, v) ==
    /\ getNodeRankPosition(v) > 0
    /\ NodeCoverC(k, v) >= NodeCoverC(k, getAvailNodeRank[getNodeRankPosition(v)])

NodeCoverEmitted(k, v) ==
    /\ getNodeRankPosition(v) > 0
    /\ NodeCoverC(k, v) > NodeCoverC(k, getAvailNodeRank[getNodeRankPosition(v)])

NodeCoverCut(k, i, v) ==
    IloRange(<<"NodeCover", k, i, v>>, NodeCoverC(k, v) * EpsInv,
             [t \in XVars |-> IF t[1] = k /\ t[2] = i
                               THEN NodeCoverCoeff(k, v, t[3]) * EpsInv ELSE 0])

addAvailabilityCoverConstraints ==
    LET sel == SelectSeq(KIVList, LAMBDA t : NodeCoverEmitted(t[1], t[3]))
    IN [j \in 1 .. Len(sel) |-> NodeCoverCut(sel[j][1], sel[j][2], sel[j][3])]

VnfLowerBoundEmitted(k) ==
    getVnfLB(getReqAvail(k), NbVNFs(k)) > NbVNFs(k) * getVnfLB(getReqAvail(k), 1)

VnfLowerBoundCut(k) ==
    IloRange(<<"VNF_LowerBound", k>>, getVnfLB(getReqAvail(k), NbVNFs(k)) * EpsInv,
             [t \in XVars |-> IF t[1] = k THEN EpsInv ELSE 0])

addVnfLowerBoundConstraints ==
    LET ks == [k \in 1 .. Len(VNFChain) |-> k - 1]
        sel == SelectSeq(ks, LAMBDA k : VnfLowerBoundEmitted(k))
    IN [j \in 1 .. Len(sel) |-> VnfLowerBoundCut(sel[j])]

SectionFailureCut(k, i) ==
    IloRange(<<"Section_Fail", k, i>>, NegLog(RCompl(getReqAvail(k))),
             [t \in XVars |-> IF t[1] = k /\ t[2] = i
                               THEN NegLog(RCompl(getAvailability(t[3]))) ELSE 0])

addSectionFailureConstraints ==
    [j \in 1 .. Len(KIList) |-> SectionFailureCut(KIList[j][1], KIList[j][2])]

setCutPool ==
    (IF input.nodeCover THEN addAvailabilityCoverConstraints ELSE <<>>)
    \o (IF input.vnfLowerBound THEN addVnfLowerBoundConstraints ELSE <<>>)
    \o (IF input.sectionFailure THEN addSectionFailureConstraints ELSE <<>>)

\* value of the left-hand side of a cut at a point whose entries are
\* in units of 1/XUnit; the result is in units of 1e-4 / XUnit
CutValue(cut, point) == SumF([t \in XVars |-> cut.coef[t] * point[t]], XVars)

(***************************************************************************)
(* Integer solution queries and the lazy-constraint engine.                *)
(***************************************************************************)
\* x >= 1 - EPS
IsPlaced(x) == x >= XUnit - EpsX

PlacedNodes(k, i, x) == {v \in Nodes : IsPlaced(x[<<k, i, v>>])}

\* a mutation of getAvailabilityOfSection: a section without node counts
\* as always available
getAvailabilityOfSectionOrOne(k, i, x) ==
    IF PlacedNodes(k, i, x) = {} THEN ROne ELSE RCompl(getFailureProb(PlacedNodes(k, i, x)))

getAvailabilityOfSection(k, i, x) == RCompl(getFailureProb(PlacedNodes(k, i, x)))

getAvailabilitiesOfSections(k, x) ==
    [j \in 1 .. NbVNFs(k) |->
        [section |-> j - 1, availability |-> getAvailabilityOfSection(k, j - 1, x)]]

\* a mutation of compareAvailability: the sort is descending
compareAvailabilityDescending(a, b) == RLt(b.availability, a.availability)

compareAvailability(a, b) == RLt(a.availability, b.availability)

\* std::sort with compareAvailability (insertion sort on these short vectors)
RECURSIVE InsertSorted(_, _)
InsertSorted(e, sorted) ==
    IF sorted = <<>> THEN <<e>>
    ELSE IF compareAvailability(e, sorted[Len(sorted)])
         THEN InsertSorted(e, SubSeq(sorted, 1, Len(sorted) - 1)) \o <<sorted[Len(sorted)]>>
         ELSE sorted \o <<e>>

RECURSIVE SortFrom(_, _)
SortFrom(rest, sorted) ==
    IF rest = <<>> THEN sorted ELSE SortFrom(Tail(rest), InsertSorted(Head(rest), sorted))

SortByAvailability(sa) == SortFrom(sa, <<>>)

\* the while loop of addLazyConstraints: the running product and the number
\* of sections selected
RECURSIVE SelectPrefix(_, _, _, _, _)
SelectPrefix(sa, req, n, chain, index) ==
    IF RLe(req, chain) /\ index < n
    THEN SelectPrefix(sa, req, n, RMul(chain, sa[index + 1].availability), index + 1)
    ELSE [chainAvailability |-> chain, nbSelectedSections |-> index]

\* availability of the first nb sections if node v joined section s
LiftFutureSection(sa, s, v) ==
    RCompl(RMul(RCompl(sa[s].availability), RCompl(getAvailability(v))))

LiftFuture(sa, nb, s, v) ==
    getChainAvailability(
        [j \in 1 .. nb |-> IF j = s THEN LiftFutureSection(sa, s, v)
                                     ELSE sa[j].availability])

\* a mutation of LiftKeeps: a placement that reaches the requirement exactly
\* is added too
LiftKeepsAtRequirement(future, req) == RLe(future, req)

\* the test of lift: the placement is added when the availability would
\* still be violated
LiftKeeps(future, req) == RLt(future, req)

\* one (section, node) position of lift, on the state st = [x, sa]
LiftStep(st, k, req, nb, s, v) ==
    LET i == st.sa[s].section
    IN IF ~IsPlaced(st.x[<<k, i, v>>])
          /\ LiftKeeps(LiftFuture(st.sa, nb, s, v), req)
       THEN [x |-> [st.x EXCEPT ![<<k, i, v>>] = XUnit],
             sa |-> [st.sa EXCEPT ![s].availability = LiftFutureSection(st.sa, s, v)]]
       ELSE st

RECURSIVE LiftFrom(_, _, _, _, _)
LiftFrom(st, k, req, nb, pairs) ==
    IF pairs = <<>> THEN st
    ELSE LiftFrom(LiftStep(st, k, req, nb, Head(pairs)[1], Head(pairs)[2]),
                  k, req, nb, Tail(pairs))

lift(x, k, req, sa, nb) ==
    LiftFrom([x |-> x, sa |-> sa], k, req, nb,
             Flatten([s \in 1 .. nb |-> [n \in 1 .. NbNodes |-> <<s, NodeOrder[n]>>]]))

\* a mutation of NogoodVars: every variable of the selected sections enters
\* the inequality
NogoodVarsOfPrefix(k, sa, nb, x) ==
    {t \in XVars : /\ t[1] = k
                   /\ \E s \in 1 .. nb : sa[s].section = t[2]}

\* the variables of the inequality built after lift
NogoodVars(k, sa, nb, x) ==
    {t \in XVars : /\ t[1] = k
                   /\ \E s \in 1 .. nb : sa[s].section = t[2]
                   /\ ~IsPlaced(x[t])}

\* a mutation of LazyViolated: a violation met only with the last section
\* is let through
LazyViolatedOnlyBeforeLast(chain, req, index, n) == RLt(chain, req) /\ index < n

\* the condition under which a lazy constraint is added for a demand
LazyViolated(chain, req, index, n) == RLt(chain, req)

\* the body of the loop over the demands, on the state st = [x, rejected]
LazyDemand(st, k) ==
    LET sa == SortByAvailability(getAvailabilitiesOfSections(k, st.x))
        req == getReqAvail(k)
        sel == SelectPrefix(sa, req, NbVNFs(k), ROne, 0)
        nb == sel.nbSelectedSections
    IN IF LazyViolated(sel.chainAvailability, req, nb, NbVNFs(k))
       THEN LET lifted == lift(st.x, k, req, sa, nb)
            IN [x |-> lifted.x,
                rejected |-> Append(st.rejected,
                    [k |-> k,
                     nb |-> nb,
                     sections |-> {sa[s].section : s \in 1 .. nb},
                     vars |-> NogoodVars(k, sa, nb, lifted.x)])]
       ELSE st

RECURSIVE LazyFrom(_, _)
LazyFrom(st, k) ==
    IF k >= Len(VNFChain) THEN st ELSE LazyFrom(LazyDemand(st, k), k + 1)

\* addLazyConstraints on the candidate point: the final xSol and the
\* inequalities passed to rejectCandidate, in order
addLazyConstraints(point) == LazyFrom([x |-> point, rejected |-> <<>>], 0)

(***************************************************************************)
(* The cut pool check.                                                     *)
(***************************************************************************)
\* a mutation of PoolCutViolated: no tolerance below the lower bound
PoolCutViolatedNoEps(cut, point) ==
    \/ CutValue(cut, point) < cut.lb * XUnit
    \/ cut.hasUb /\ CutValue(cut, point) > cut.ub * XUnit

\* LHS < LB - EPS or LHS > UB + EPS (EPS is one unit)
PoolCutViolated(cut, point) ==
    \/ CutValue(cut, point) < (cut.lb - 1) * XUnit
    \/ cut.hasUb /\ CutValue(cut, point) > (cut.ub + 1) * XUnit

\* a mutation of checkCutPool: a violated cut already submitted in this
\* invocation is not submitted again
checkCutPoolUnsubmitted(point) ==
    SelectSeq(cutPool, LAMBDA cut :
        /\ PoolCutViolated(cut, point)
        /\ \A j \in 1 .. Len(host.userCuts) : host.userCuts[j] # cut)

\* the cuts checkCutPool passes to addUserCut, in order
checkCutPool(point) == SelectSeq(cutPool, LAMBDA cut : PoolCutViolated(cut, point))

(***************************************************************************)
(* Dynamic separation.                                                     *)
(***************************************************************************)
\* indexes of a vector sorted by increasing value, equal values in index
\* order
RECURSIVE InsertIndex(_, _, _)
InsertIndex(e, sorted, val) ==
    IF sorted = <<>> THEN <<e>>
    ELSE IF val[e] < val[sorted[Len(sorted)]]
         THEN InsertIndex(e, SubSeq(sorted, 1, Len(sorted) - 1), val) \o <<sorted[Len(sorted)]>>
         ELSE sorted \o <<e>>

RECURSIVE SortedIndexesFrom(_, _, _)
SortedIndexesFrom(j, sorted, val) ==
    IF j > Len(val) THEN sorted
    ELSE SortedIndexesFrom(j + 1, InsertIndex(j, sorted, val), val)

\* 1-based positions of val in ascending order of value
getSortedIndexes_Asc(val) == SortedIndexesFrom(1, <<>>, val)

RECURSIVE SumSeq(_)
SumSeq(q) == IF q = <<>> THEN 0 ELSE Head(q) + SumSeq(Tail(q))

\* lhs < rhs - EPS, lhs in units of 1/XUnit and rhs an integer
BelowBound(lhs, rhs) == lhs < rhs * XUnit - EpsX

\* chainCoverSeparation for demand k: the first violated prefix, if any
ChainCoverSums(k, x) ==
    [j \in 1 .. NbVNFs(k) |-> SumF([v \in Nodes |-> x[<<k, j - 1, v>>]], Nodes)]

ChainCoverLhs(k, x, p) ==
    LET sums == ChainCoverSums(k, x)
        sorted == getSortedIndexes_Asc(sums)
    IN SumSeq([j \in 1 .. p |-> sums[sorted[j]]])

ChainCoverViolatedAt(k, x, p) ==
    BelowBound(ChainCoverLhs(k, x, p), getVnfLB(getReqAvail(k), p))

ChainCoverCut(k, x, p) ==
    LET sorted == getSortedIndexes_Asc(ChainCoverSums(k, x))
        secs == {sorted[j] - 1 : j \in 1 .. p}
    IN IloRange(<<"ChainCoverCut", k, p>>, getVnfLB(getReqAvail(k), p) * EpsInv,
                [t \in XVars |-> IF t[1] = k /\ t[2] \in secs THEN EpsInv ELSE 0])

\* a mutation of ChainCoverOfDemand: the cut of the largest violated prefix
ChainCoverOfDemandLargest(k, x) ==
    LET viol == {p \in 1 .. NbVNFs(k) : ChainCoverViolatedAt(k, x, p)}
    IN IF viol = {} THEN <<>>
       ELSE <<ChainCoverCut(k, x, CHOOSE p \in viol : \A q \in viol : p >= q)>>

ChainCoverOfDemand(k, x) ==
    LET viol == {p \in 1 .. NbVNFs(k) : ChainCoverViolatedAt(k, x, p)}
    IN IF viol = {} THEN <<>>
       ELSE <<ChainCoverCut(k, x, CHOOSE p \in viol : \A q \in viol : p <= q)>>

chainCoverSeparation(x) ==
    Flatten([k \in 1 .. Len(VNFChain) |-> ChainCoverOfDemand(k - 1, x)])

\* generalizedCoverSeparation: the set U of a probe node
SetU(limit_node) ==
    {v \in Nodes : getNodeRankPosition(v) >= getNodeRankPosition(limit_node)}

GenCoverCoef(U, rhs, v) == IF v \in U THEN 1 ELSE rhs

GenCoverSums(k, x, U, rhs) ==
    [j \in 1 .. NbVNFs(k) |->
        SumF([v \in Nodes |-> GenCoverCoef(U, rhs, v) * x[<<k, j - 1, v>>]], Nodes)]

GenCoverViolatedAt(k, x, limit_node, p) ==
    LET U == SetU(limit_node)
        rhs == getVnfLB_U(U, p, getReqAvail(k))
    IN /\ rhs >= 0
       /\ LET sums == GenCoverSums(k, x, U, rhs)
              sorted == getSortedIndexes_Asc(sums)
          IN BelowBound(SumSeq([j \in 1 .. p |-> sums[sorted[j]]]), rhs)

GenCoverCut(k, x, limit_node, p) ==
    LET U == SetU(limit_node)
        rhs == getVnfLB_U(U, p, getReqAvail(k))
        sorted == getSortedIndexes_Asc(GenCoverSums(k, x, U, rhs))
        secs == {sorted[j] - 1 : j \in 1 .. p}
    IN IloRange(<<"GenCoverCut", k, p, limit_node>>, rhs * EpsInv,
                [t \in XVars |-> IF t[1] = k /\ t[2] \in secs
                                  THEN GenCoverCoef(U, rhs, t[3]) * EpsInv ELSE 0])

\* the (demand, probe node, prefix length) triples in iteration order
GenCoverOrder ==
    Flatten([k \in 1 .. Len(VNFChain) |->
        Flatten([n \in 1 .. NbNodes |->
            [p \in 1 .. NbVNFs(k - 1) |-> <<k - 1, NodeOrder[n], p>>]])])

\* a mutation of generalizedCoverSeparation: the loops go on after a cut
generalizedCoverSeparationEvery(x) ==
    LET viol == SelectSeq(GenCoverOrder,
                          LAMBDA t : GenCoverViolatedAt(t[1], x, t[2], t[3]))
    IN [j \in 1 .. Len(viol) |-> GenCoverCut(viol[j][1], x, viol[j][2], viol[j][3])]

generalizedCoverSeparation(x) ==
    LET viol == SelectSeq(GenCoverOrder,
                          LAMBDA t : GenCoverViolatedAt(t[1], x, t[2], t[3]))
    IN IF viol = <<>> THEN <<>>
       ELSE <<GenCoverCut(viol[1][1], x, viol[1][2], viol[1][3])>>

(***************************************************************************)
(* Heuristic separation of the availability constraints.  The state of    *)
(* the greedy is h = [zero, sa, chain]: the positions <<i, v>> of          *)
(* coefficient 0 (the nodes placed in each section), the section           *)
(* availabilities and the tracked chain availability.                      *)
(***************************************************************************)
\* x1 / a1 > x2 / a2 for values x and positive rationals a
RatioGreater(x1, a1, x2, a2) == x1 * a1[2] * a2[1] > x2 * a2[2] * a1[1]

\* the initial node of an empty section: best ratio x / availability, the
\* first one met in case of a tie
RECURSIVE BestInitialNode(_, _, _, _)
BestInitialNode(k, i, x, n) ==
    IF n = 1 THEN NodeOrder[1]
    ELSE LET b == BestInitialNode(k, i, x, n - 1)
             v == NodeOrder[n]
         IN IF RatioGreater(x[<<k, i, v>>], getAvailability(v),
                            x[<<k, i, b>>], getAvailability(b))
            THEN v ELSE b

InitialSectionNodes(k, i, x) ==
    IF PlacedNodes(k, i, x) # {} THEN PlacedNodes(k, i, x)
    ELSE {BestInitialNode(k, i, x, NbNodes)}

initiateHeuristic(k, x) ==
    LET nodes == [i \in Sections(k) |-> InitialSectionNodes(k, i, x)]
        sa == [i \in Sections(k) |-> RCompl(getFailureProb(nodes[i]))]
    IN [zero |-> {p \in Sections(k) \X Nodes : p[2] \in nodes[p[1]]},
        sa |-> sa,
        chain |-> getChainAvailability([j \in 1 .. NbVNFs(k) |-> sa[j - 1]])]

\* section availability once node v joins
JoinSection(secAvail, v) ==
    RCompl(RMul(RCompl(secAvail), RCompl(getAvailability(v))))

\* computeDeltaAvailability for a position of coefficient 1:
\* (CHAIN_AVAIL / sectionAvail) * newSectionAvail - CHAIN_AVAIL
DeltaAvailability(CHAIN_AVAIL, secAvail, v) ==
    RSub(RMul(RDiv(CHAIN_AVAIL, secAvail), JoinSection(secAvail, v)), CHAIN_AVAIL)

\* a mutation of DeltaBase: the current chain availability is passed
DeltaBaseOfChain(REQUIRED_AVAIL, chainAvailability) == chainAvailability

\* the first argument the separation passes to computeDeltaAvailability
DeltaBase(REQUIRED_AVAIL, chainAvailability) == REQUIRED_AVAIL

HeurDelta(h, req, p) == DeltaAvailability(DeltaBase(req, h.chain), h.sa[p[1]], p[2])

\* a mutation of HeurEligible: every position still at coefficient 1 may
\* join, whatever the availability it leads to
HeurEligibleAny(h, k, req) == (Sections(k) \X Nodes) \ h.zero

\* positions that can join without the tracked availability reaching the
\* requirement
HeurEligible(h, k, req) ==
    {p \in (Sections(k) \X Nodes) \ h.zero : RLt(RAdd(h.chain, HeurDelta(h, req, p)), req)}

HeurOrder(k) ==
    Flatten([j \in 1 .. NbVNFs(k) |-> [n \in 1 .. NbNodes |-> <<j - 1, NodeOrder[n]>>]])

\* the eligible position of best ratio x / delta, the first one met in case
\* of a tie
RECURSIVE BestOf(_, _, _, _, _)
BestOf(cands, h, k, req, x) ==
    IF Len(cands) = 1 THEN cands[1]
    ELSE LET b == BestOf(SubSeq(cands, 1, Len(cands) - 1), h, k, req, x)
             c == cands[Len(cands)]
         IN IF RatioGreater(x[<<k, c[1], c[2]>>], HeurDelta(h, req, c),
                            x[<<k, b[1], b[2]>>], HeurDelta(h, req, b))
            THEN c ELSE b

HeurAdd(h, req, p) ==
    [zero |-> h.zero \cup {p},
     sa |-> [h.sa EXCEPT ![p[1]] = JoinSection(h.sa[p[1]], p[2])],
     chain |-> RAdd(h.chain, HeurDelta(h, req, p))]

\* the while (!STOP) loop
RECURSIVE HeurLoop(_, _, _, _)
HeurLoop(h, k, req, x) ==
    LET el == HeurEligible(h, k, req)
    IN IF el = {} THEN h
       ELSE HeurLoop(HeurAdd(h, req,
                        BestOf(SelectSeq(HeurOrder(k), LAMBDA p : p \in el), h, k, req, x)),
                     k, req, x)

HeurCutVars(h, k) == {t \in XVars : t[1] = k /\ <<t[2], t[3]>> \notin h.zero}

HeurCut(h, k) ==
    [name |-> <<"heurAvailabilityCut", k>>, lb |-> EpsInv,
     coef |-> [t \in XVars |-> IF t \in HeurCutVars(h, k) THEN EpsInv ELSE 0],
     hasUb |-> FALSE, ub |-> 0]

HeurOfDemand(k, x) ==
    LET req == getReqAvail(k)
        h0 == initiateHeuristic(k, x)
    IN IF RLt(h0.chain, req)
       THEN LET h == HeurLoop(h0, k, req, x)
                lhs == SumF([t \in XVars |-> IF t \in HeurCutVars(h, k) THEN x[t] ELSE 0],
                            XVars)
            IN IF BelowBound(lhs, 1) THEN <<[cut |-> HeurCut(h, k), h |-> h]>> ELSE <<>>
       ELSE <<>>

\* the cuts submitted by heuristicSeparationOfAvailibilityConstraints, each
\* with the final state of the greedy that produced it
heuristicSeparation(x) ==
    Flatten([k \in 1 .. Len(VNFChain) |-> HeurOfDemand(k - 1, x)])

(***************************************************************************)
(* The matheuristic.                                                       *)
(***************************************************************************)
\* RND <= (UB - OBJ) / UB for a draw RND in units of 1/XUnit
\* a mutation of heuristicRule: the draw is ignored
heuristicRuleAlways(OBJ, UB, RND) == TRUE

\* RND <= (UB - OBJ) / UB, with RND in units of 1/XUnit and UB > 0
heuristicRule(OBJ, UB, RND) == RND * UB <= (UB - OBJ) * XUnit

\* a mutation of ReqCapacity: an assignment needs no capacity
ReqCapacityNone(k, i) == 0

\* capacity needed by section i of demand k
ReqCapacity(k, i) == getBandwidth(k) * getConsumption(getVNF_i(k, i))

\* a mutation of CapacityAllows: the remaining capacity is not looked at
CapacityAllowsAny(req_capacity, remaining) == TRUE

\* the test guarding an assignment in both phases
CapacityAllows(req_capacity, remaining) == req_capacity <= remaining

\* a mutation of PhaseIAssign: the assignment does not look at ySol
PhaseIAssignUnplaced(st, v, y, acc, ki) ==
    IF CapacityAllows(ReqCapacity(ki[1], ki[2]), st.rem)
       /\ ki \in acc
    THEN [x |-> [st.x EXCEPT ![<<ki[1], ki[2], v>>] = XUnit],
          rem |-> st.rem - ReqCapacity(ki[1], ki[2])]
    ELSE [x |-> [st.x EXCEPT ![<<ki[1], ki[2], v>>] = 0], rem |-> st.rem]

\* Phase I, inner loops for node v: the (demand, section) pairs are visited
\* in order; acc holds the pairs whose draw is at most the relaxation value.
\* The state is st = [x, rem].
PhaseIAssign(st, v, y, acc, ki) ==
    IF y[<<v, getVNF_i(ki[1], ki[2])>>] = 1
       /\ CapacityAllows(ReqCapacity(ki[1], ki[2]), st.rem)
       /\ ki \in acc
    THEN [x |-> [st.x EXCEPT ![<<ki[1], ki[2], v>>] = XUnit],
          rem |-> st.rem - ReqCapacity(ki[1], ki[2])]
    ELSE [x |-> [st.x EXCEPT ![<<ki[1], ki[2], v>>] = 0], rem |-> st.rem]

RECURSIVE PhaseINode(_, _, _, _, _)
PhaseINode(st, v, y, acc, kis) ==
    IF kis = <<>> THEN st
    ELSE PhaseINode(PhaseIAssign(st, v, y, acc, Head(kis)), v, y, acc, Tail(kis))

\* availability of section i of demand k in xSol (entries equal to 1)
SolutionSectionAvail(x, k, i) ==
    RCompl(getFailureProb({v \in Nodes : x[<<k, i, v>>] = XUnit}))

\* getSolutionAvail_k: the chain availability and the least available section
getSolutionAvail_k(x, k) ==
    LET sa == [j \in 1 .. NbVNFs(k) |-> SolutionSectionAvail(x, k, j - 1)]
        below == {j \in 1 .. NbVNFs(k) : RLt(sa[j], ROne)}
    IN [availability |-> getChainAvailability(sa),
        leastAvailableSection |->
            IF below = {} THEN 0 - 1
            ELSE (CHOOSE j \in below :
                     \A l \in below : RLt(sa[j], sa[l]) \/ (sa[j] = sa[l] /\ j <= l)) - 1]

\* getNodeToInstall: the loop over the nodes, on the state
\* sel = [node, minValue, maxRemainingCapacity], node = -1 while minValue is
\* infinite
NodeToInstallStep(sel, v, f, k, y, rem) ==
    LET cost == getPlacementCost(v, f) * (1 - y[<<v, f>>])
        take == [node |-> v, minValue |-> cost, maxRemainingCapacity |-> rem[v]]
    IN IF ~CapacityAllows(getBandwidth(k) * getConsumption(f), rem[v]) THEN sel
       ELSE IF sel.node = 0 - 1 \/ cost < sel.minValue THEN take
       ELSE IF cost = sel.minValue /\ rem[v] > sel.maxRemainingCapacity THEN take
       ELSE sel

RECURSIVE NodeToInstallFrom(_, _, _, _, _, _)
NodeToInstallFrom(sel, n, f, k, y, rem) ==
    IF n > NbNodes THEN sel
    ELSE NodeToInstallFrom(NodeToInstallStep(sel, NodeOrder[n], f, k, y, rem),
                           n + 1, f, k, y, rem)

getNodeToInstall(f, k, y, rem) ==
    NodeToInstallFrom([node |-> 0 - 1, minValue |-> 0, maxRemainingCapacity |-> 0],
                      1, f, k, y, rem).node

\* the objective insertHeuristicSolution posts
PostedObjective(y) == SumF([t \in YVars |-> getPlacementCost(t[1], t[2]) * y[t]], YVars)

\* a mutation of ShouldPost: a solution as costly as the incumbent passes
ShouldPostWhenNotWorse(isFeasible, obj, incumbent) == isFeasible /\ obj <= incumbent

\* a mutation of ShouldPost: the result of Phase II is ignored
ShouldPostWhenCheaper(isFeasible, obj, incumbent) == obj < incumbent

\* the test of runHeuristic before insertHeuristicSolution
ShouldPost(isFeasible, obj, incumbent) == isFeasible /\ obj < incumbent

(***************************************************************************)
(* Model::setVnfAssignmentConstraints, for a node set V and the chains of   *)
(* the demands.                                                            *)
(***************************************************************************)
\* availability of the most available node of V
BestAvailability(V) ==
    LET A == {data.avail[v] : v \in V}
    IN CHOOSE a \in A : \A b \in A : RLe(b, a)

\* Data::getMinNbNodes with the requirement alone: the least number of
\* nodes that reaches req when every node is as available as the best one
getMinNbNodes(V, req) == getMinNbNodes_a(req, BestAvailability(V))

\* a mutation of VnfAssignmentConstraint: one node is required whatever
\* the requirement
VnfAssignmentConstraintOfOne(V, k, i) ==
    [name |-> <<"VNF_Assignment", k, i>>, lb |-> 1, vars |-> {<<k, i, v>> : v \in V}]

\* the constraint of section i of demand k: rhs <= sum over V of x[k][i][v]
VnfAssignmentConstraint(V, k, i) ==
    [name |-> <<"VNF_Assignment", k, i>>,
     lb |-> getMinNbNodes(V, data.reqAvail[k]),
     vars |-> {<<k, i, v>> : v \in V}]

\* rhs >= 1 fails for some demand: the program exits
VnfAssignmentExits(V, chain) ==
    \E k \in 1 .. Len(chain) : getMinNbNodes(V, data.reqAvail[k - 1]) < 1

setVnfAssignmentConstraints(V, chain) ==
    Flatten([k \in 1 .. Len(chain) |->
                [i \in 1 .. Len(chain[k]) |-> VnfAssignmentConstraint(V, k - 1, i - 1)]])

(***************************************************************************)
(* Instances and configurations explored.                                  *)
(***************************************************************************)
Half == <<1, 2>>
ThreeQuarters == <<3, 4>>
SevenEighths == <<7, 8>>

\* node and demand attributes of the instances on which candidates are checked
LazyData ==
    [avail : [Nodes -> {Half, ThreeQuarters}],
     capacity : {[v \in Nodes |-> 2], [v \in Nodes |-> 3]},
     reqAvail : [Demands -> {Half, ThreeQuarters, SevenEighths}],
     bandwidth : {[k \in Demands |-> 1]},
     consumption : {[f \in Vnfs |-> 1]},
     cost : {[t \in YVars |-> 1 + t[1]]}]

AllOn ==
    [lazy |-> TRUE, heuristic |-> TRUE, approximationNone |-> TRUE,
     nodeCover |-> TRUE, vnfLowerBound |-> TRUE, sectionFailure |-> TRUE,
     chainCover |-> TRUE, availabilityUsercuts |-> TRUE]

NoContext ==
    [id |-> "None", point |-> [t \in XVars |-> 0], isCandidatePoint |-> FALSE,
     incumbentObjective |-> 0]

\* locals of the functions in progress: current_number_of_cuts of invoke;
\* OBJ and RND of heuristicRule; the node index of Phase I; k and the result
\* of Phase II
NoLocals ==
    [current_number_of_cuts |-> 0, found_violated_cut |-> FALSE, OBJ |-> 0, RND |-> 0,
     n |-> 0, k |-> 0, isFeasible |-> FALSE]

\* greedy holds, for each heuristic availability cut among userCuts, the
\* final state of the greedy that built it
NoSubmission == [userCuts |-> <<>>, greedy |-> <<>>, rejected |-> <<>>, posted |-> <<>>]

\* the state after the constructor of Callback, for an instance d and a
\* configuration c
Constructed(d, c) ==
    /\ thread_flag = 0
    /\ data = d
    /\ constraints = setVnfAssignmentConstraints(Nodes, VNFChain)
    /\ input = c
    /\ cutPool = setCutPool
    /\ xSol = [t \in XVars |-> 0]
    /\ ySol = [t \in YVars |-> 0]
    /\ objSol = 0
    /\ remainingCapacity = [v \in Nodes |-> 0]
    /\ nbCuts = 0
    /\ nbLazyConstraints = 0
    /\ nb_cuts_avail_heuristic = 0
    /\ ctx = NoContext
    /\ pc = "idle"
    /\ loc = NoLocals
    /\ host = NoSubmission
    /\ trace = <<>>

\* an entry of trace: a function executed and the number of cuts it submitted
Did(op, cuts) == [op |-> op, cuts |-> cuts]

(***************************************************************************)
(* Candidate events.                                                       *)
(***************************************************************************)
IntegerPoints == [XVars -> {0, XUnit}]

\* events are explored while the counters are under their bounds
WithinBounds == nbCuts < MaxUserCuts /\ nbLazyConstraints < MaxLazy

\* invoke, case Candidate, with a candidate point: getIntegerSolution and
\* addLazyConstraints.  The Candidate context is in the mask of the callback
\* only with LAZY_ON.
InvokeCandidate ==
    /\ pc = "idle"
    /\ input.lazy
    /\ WithinBounds
    /\ \E point \in IntegerPoints :
         LET r == addLazyConstraints(point)
         IN /\ ctx' = [NoContext EXCEPT !.id = "Candidate", !.point = point,
                                         !.isCandidatePoint = TRUE]
            /\ xSol' = r.x
            /\ host' = [host EXCEPT !.rejected = r.rejected]
            /\ nbLazyConstraints' = nbLazyConstraints + Len(r.rejected)
            /\ trace' = <<Did("getIntegerSolution", 0),
                          Did("addLazyConstraints", Len(r.rejected))>>
    /\ pc' = "return"
    /\ UNCHANGED <<thread_flag, constraints, data, input, cutPool, ySol, objSol, remainingCapacity, nbCuts,
                   nb_cuts_avail_heuristic, loc>>

\* a mutation of candidateCase: without a candidate point the case throws,
\* as getIntegerSolution would
candidateCaseThrows(isCandidatePoint) ==
    IF isCandidatePoint THEN "addLazyConstraints" ELSE "aborted"

\* the case Candidate of invoke: addLazyConstraints is called only with a
\* candidate point; otherwise the case breaks
candidateCase(isCandidatePoint) ==
    IF isCandidatePoint THEN "addLazyConstraints" ELSE "return"

\* invoke, case Candidate, when the context holds no candidate point (an
\* unbounded ray): nothing is checked
InvokeCandidateRay ==
    /\ pc = "idle"
    /\ input.lazy
    /\ ctx' = [NoContext EXCEPT !.id = "Candidate"]
    /\ pc' = candidateCase(FALSE)
    /\ UNCHANGED <<thread_flag, constraints, data, input, cutPool, xSol, ySol, objSol, remainingCapacity,
                   nbCuts, nbLazyConstraints, nb_cuts_avail_heuristic, loc, host, trace>>

\* the ids of Context other than the two of the cases of invoke
UnexpectedIds == {"ThreadUp", "ThreadDown", "LocalProgress", "GlobalProgress", "Branching"}

\* a mutation of invokeSwitch: the default case breaks out of the switch
invokeSwitchBreaks(id) ==
    IF id = "Relaxation" THEN "addUserCuts"
    ELSE IF id = "Candidate" THEN "addLazyConstraints"
    ELSE "return"

\* the switch of invoke: where the invocation goes for each id; the default
\* case throws IloCplex::Exception
invokeSwitch(id) ==
    IF id = "Relaxation" THEN "addUserCuts"
    ELSE IF id = "Candidate" THEN "addLazyConstraints"
    ELSE "aborted"

\* invoke with another id: the exception leaves invoke, the optimisation
\* stops and main returns 1, so no action starts from "aborted"
InvokeOther ==
    /\ pc = "idle"
    /\ \E id \in UnexpectedIds :
          /\ ctx' = [NoContext EXCEPT !.id = id]
          /\ pc' = invokeSwitch(id)
    /\ UNCHANGED <<thread_flag, constraints, data, input, cutPool, xSol, ySol, objSol,
                   remainingCapacity, nbCuts, nbLazyConstraints,
                   nb_cuts_avail_heuristic, loc, host, trace>>

\* the end of invoke.  The solution buffers keep their values in the
\* program; every invocation overwrites them before it reads them, so the
\* model clears them here to identify the states between invocations.
Return ==
    /\ pc = "return"
    /\ pc' = "idle"
    /\ ctx' = NoContext
    /\ loc' = NoLocals
    /\ host' = NoSubmission
    /\ trace' = <<>>
    /\ xSol' = [t \in XVars |-> 0]
    /\ ySol' = [t \in YVars |-> 0]
    /\ objSol' = 0
    /\ remainingCapacity' = [v \in Nodes |-> 0]
    /\ UNCHANGED <<thread_flag, constraints, data, input, cutPool, nbCuts, nbLazyConstraints,
                   nb_cuts_avail_heuristic>>

(***************************************************************************)
(* Relaxation events.                                                      *)
(***************************************************************************)
GridValues == {(j * XUnit) \div Grain : j \in 0 .. Grain}

\* the constraints of the model on x alone, which every relaxation point
\* satisfies: at least getMinNbNodes nodes for each section, and the node
\* capacities
VnfAssignmentHolds(p) ==
    \A k \in Demands : \A i \in Sections(k) :
        SumF([v \in Nodes |-> p[<<k, i, v>>]], Nodes)
            >= getMinNbNodes_a(getReqAvail(k), getAvailability(getAvailNodeRank[1])) * XUnit

NodeCapacityHolds(p) ==
    \A v \in Nodes :
        SumF([t \in XVars |-> IF t[3] = v THEN ReqCapacity(t[1], t[2]) * p[t] ELSE 0], XVars)
            <= getCapacity(v) * XUnit

ModelConstraintsHold(p) == VnfAssignmentHolds(p) /\ NodeCapacityHolds(p)

\* the entry moved within EPS of 1 in the perturbed relaxation points
NearEntry == <<0, 0, 1>>

\* relaxation points: the points of the grid that satisfy the constraints
\* of the model, and those points with NearEntry moved from 1 to within EPS
\* of 1
RelaxationPoints ==
    LET grid == {p \in [XVars -> GridValues] : ModelConstraintsHold(p)}
        near == {q \in {[p EXCEPT ![NearEntry] = NearOne] :
                           p \in {g \in grid : g[NearEntry] = XUnit}} :
                     ModelConstraintsHold(q)}
    IN grid \cup near

\* (incumbent objective, relaxation objective) of the context
ObjectivePairs == {<<6, 0>>, <<8, 4>>}

\* invoke, case Relaxation: the user-cut counter is read
InvokeRelaxation ==
    /\ pc = "idle"
    /\ WithinBounds
    /\ \E point \in RelaxationPoints :
         ctx' = [NoContext EXCEPT !.id = "Relaxation", !.point = point]
    /\ loc' = [NoLocals EXCEPT !.current_number_of_cuts = nbCuts]
    /\ pc' = "addUserCuts"
    /\ UNCHANGED <<thread_flag, constraints, data, input, cutPool, xSol, ySol, objSol, remainingCapacity, nbCuts,
                   nbLazyConstraints, nb_cuts_avail_heuristic, host, trace>>

\* where addUserCuts and invoke go once the functions before `from` are done
AfterSeparation(from, cuts_now) ==
    IF from = "checkCutPool" /\ input.chainCover THEN "generalizedCoverSeparation"
    ELSE IF from \in {"checkCutPool", "chainCoverSeparation"} /\ input.availabilityUsercuts
         THEN "heuristicSeparation"
    ELSE IF cuts_now = loc.current_number_of_cuts THEN "runHeuristic"
    ELSE "return"

\* a mutation of AfterPool: the dynamic separation runs whatever the pool
\* check found
AfterPoolAlwaysSeparate(found, cuts_now) == AfterSeparation("checkCutPool", cuts_now)

\* where addUserCuts goes after checkCutPool
AfterPool(found, cuts_now) ==
    IF found THEN AfterSeparation("heuristicSeparation", cuts_now)
    ELSE AfterSeparation("checkCutPool", cuts_now)

\* addUserCuts: getFractionalSolution, then checkCutPool
CheckCutPool ==
    /\ pc = "addUserCuts"
    /\ xSol' = ctx.point
    /\ LET added == checkCutPool(ctx.point)
       IN /\ host' = [host EXCEPT !.userCuts = @ \o added]
          /\ nbCuts' = nbCuts + Len(added)
          /\ loc' = [loc EXCEPT !.found_violated_cut = (added # <<>>)]
          /\ trace' = trace \o <<Did("getFractionalSolution", 0),
                                  Did("checkCutPool", Len(added))>>
          /\ pc' = AfterPool(added # <<>>, nbCuts + Len(added))
    /\ UNCHANGED <<thread_flag, constraints, data, input, cutPool, ySol, objSol, remainingCapacity,
                   nbLazyConstraints, nb_cuts_avail_heuristic, ctx>>

GeneralizedCoverSeparation ==
    /\ pc = "generalizedCoverSeparation"
    /\ LET added == generalizedCoverSeparation(xSol)
       IN /\ host' = [host EXCEPT !.userCuts = @ \o added]
          /\ nbCuts' = nbCuts + Len(added)
          /\ trace' = Append(trace, Did("generalizedCoverSeparation", Len(added)))
    /\ pc' = "chainCoverSeparation"
    /\ UNCHANGED <<thread_flag, constraints, data, input, cutPool, xSol, ySol, objSol, remainingCapacity,
                   nbLazyConstraints, nb_cuts_avail_heuristic, ctx, loc>>

ChainCoverSeparation ==
    /\ pc = "chainCoverSeparation"
    /\ LET added == chainCoverSeparation(xSol)
       IN /\ host' = [host EXCEPT !.userCuts = @ \o added]
          /\ nbCuts' = nbCuts + Len(added)
          /\ trace' = Append(trace, Did("chainCoverSeparation", Len(added)))
          /\ pc' = AfterSeparation("chainCoverSeparation", nbCuts + Len(added))
    /\ UNCHANGED <<thread_flag, constraints, data, input, cutPool, xSol, ySol, objSol, remainingCapacity,
                   nbLazyConstraints, nb_cuts_avail_heuristic, ctx, loc>>

\* a mutation of HeuristicSeparation: the cuts it separates are also stored
\* in the pool
HeuristicSeparationPooled ==
    /\ pc = "heuristicSeparation"
    /\ LET added == heuristicSeparation(xSol)
       IN /\ host' = [host EXCEPT !.userCuts = @ \o [j \in 1 .. Len(added) |-> added[j].cut],
                                  !.greedy = @ \o added]
          /\ cutPool' = cutPool \o [j \in 1 .. Len(added) |-> added[j].cut]
          /\ nbCuts' = nbCuts + Len(added)
          /\ nb_cuts_avail_heuristic' = nb_cuts_avail_heuristic + Len(added)
          /\ trace' = Append(trace, Did("heuristicSeparation", Len(added)))
          /\ pc' = AfterSeparation("heuristicSeparation", nbCuts + Len(added))
    /\ UNCHANGED <<thread_flag, constraints, data, input, xSol, ySol, objSol, remainingCapacity,
                   nbLazyConstraints, ctx, loc>>

HeuristicSeparation ==
    /\ pc = "heuristicSeparation"
    /\ LET added == heuristicSeparation(xSol)
       IN /\ host' = [host EXCEPT !.userCuts = @ \o [j \in 1 .. Len(added) |-> added[j].cut],
                                  !.greedy = @ \o added]
          /\ nbCuts' = nbCuts + Len(added)
          /\ nb_cuts_avail_heuristic' = nb_cuts_avail_heuristic + Len(added)
          /\ trace' = Append(trace, Did("heuristicSeparation", Len(added)))
          /\ pc' = AfterSeparation("heuristicSeparation", nbCuts + Len(added))
    /\ UNCHANGED <<thread_flag, constraints, data, input, cutPool, xSol, ySol, objSol, remainingCapacity,
                   nbLazyConstraints, ctx, loc>>

\* invoke skips runHeuristic when addUserCuts added a cut; the action below
\* is runHeuristic up to the call of Phase I
RunHeuristic ==
    /\ pc = "runHeuristic"
    /\ \/ /\ ~input.heuristic
          /\ pc' = "return"
          /\ trace' = Append(trace, Did("runHeuristic", 0))
          /\ UNCHANGED <<ctx, loc>>
       \/ /\ input.heuristic /\ ~input.approximationNone
          /\ pc' = "return"
          /\ trace' = Append(trace, Did("runHeuristic", 0)) \o <<Did("heuristicRule", 0)>>
          /\ UNCHANGED <<ctx, loc>>
       \/ /\ input.heuristic /\ input.approximationNone
          /\ \E o \in ObjectivePairs, RND \in GridValues :
                /\ ctx' = [ctx EXCEPT !.incumbentObjective = o[1]]
                /\ loc' = [loc EXCEPT !.OBJ = o[2], !.RND = RND]
                /\ pc' = IF heuristicRule(o[2], o[1], RND) THEN "Phase_I" ELSE "return"
          /\ trace' = Append(trace, Did("runHeuristic", 0)) \o <<Did("heuristicRule", 0)>>
    /\ UNCHANGED <<thread_flag, constraints, data, input, cutPool, xSol, ySol, objSol, remainingCapacity, nbCuts,
                   nbLazyConstraints, nb_cuts_avail_heuristic, host>>

\* Phase I, first loop: each y[v][f] is placed iff its draw is at most the
\* relaxation value of y[v][f]; draws and values are arbitrary in [0,1]
Phase_I_y ==
    /\ pc = "Phase_I"
    /\ \E y \in [YVars -> {0, 1}] :
          /\ ySol' = y
          /\ objSol' = PostedObjective(y)
    /\ loc' = [loc EXCEPT !.n = 1]
    /\ trace' = Append(trace, Did("runHeuristic_Phase_I", 0))
    /\ pc' = "Phase_I_x"
    /\ UNCHANGED <<thread_flag, constraints, data, input, cutPool, xSol, remainingCapacity, nbCuts,
                   nbLazyConstraints, nb_cuts_avail_heuristic, ctx, host>>

\* Phase I, second loop, the iteration of node NodeOrder[loc.n]: a draw is
\* at most the relaxation value for the pairs of acc, which holds every
\* pair whose value is 1
Phase_I_x ==
    /\ pc = "Phase_I_x"
    /\ loc.n <= NbNodes
    /\ LET v == NodeOrder[loc.n]
           sure == {KIList[j] : j \in {l \in 1 .. Len(KIList) :
                        ctx.point[<<KIList[l][1], KIList[l][2], v>>] >= XUnit}}
           open == {KIList[j] : j \in {l \in 1 .. Len(KIList) :
                        /\ ctx.point[<<KIList[l][1], KIList[l][2], v>>] < XUnit
                        /\ ySol[<<v, getVNF_i(KIList[l][1], KIList[l][2])>>] = 1}}
       IN \E acc \in SUBSET open :
            LET st == PhaseINode([x |-> xSol, rem |-> getCapacity(v)], v, ySol,
                                 sure \cup acc, KIList)
            IN /\ xSol' = st.x
               /\ remainingCapacity' = [remainingCapacity EXCEPT ![v] = st.rem]
    /\ loc' = [loc EXCEPT !.n = @ + 1]
    /\ pc' = IF loc.n = NbNodes THEN "Phase_II" ELSE "Phase_I_x"
    /\ UNCHANGED <<thread_flag, constraints, data, input, cutPool, ySol, objSol, nbCuts, nbLazyConstraints,
                   nb_cuts_avail_heuristic, ctx, host, trace>>

\* the demands from loc.k on that are still below their requirement
BelowFrom(k0) ==
    {k \in Demands : k >= k0 /\ RLt(getSolutionAvail_k(xSol, k).availability, getReqAvail(k))}

\* Phase II, one iteration of the while loop that installs a node
Phase_II_Repair ==
    /\ pc = "Phase_II"
    /\ BelowFrom(loc.k) # {}
    /\ LET k == CHOOSE d \in BelowFrom(loc.k) : \A e \in BelowFrom(loc.k) : d <= e
           i == getSolutionAvail_k(xSol, k).leastAvailableSection
           f == getVNF_i(k, i)
           v == getNodeToInstall(f, k, ySol, remainingCapacity)
       IN /\ v # 0 - 1
          /\ xSol' = [xSol EXCEPT ![<<k, i, v>>] = XUnit]
          /\ remainingCapacity' = [remainingCapacity EXCEPT ![v] = @ - ReqCapacity(k, i)]
          /\ ySol' = [ySol EXCEPT ![<<v, f>>] = 1]
          /\ objSol' = IF ySol[<<v, f>>] = 0 THEN objSol + getPlacementCost(v, f) ELSE objSol
          /\ loc' = [loc EXCEPT !.k = k]
          /\ trace' = IF trace[Len(trace)].op = "runHeuristic_Phase_II" THEN trace
                       ELSE Append(trace, Did("runHeuristic_Phase_II", 0))
    /\ pc' = "Phase_II"
    /\ UNCHANGED <<thread_flag, constraints, data, input, cutPool, nbCuts, nbLazyConstraints,
                   nb_cuts_avail_heuristic, ctx, host>>

\* Phase II returns: false when no node can be installed, true when every
\* demand has been served
Phase_II_Return ==
    /\ pc = "Phase_II"
    /\ \/ /\ BelowFrom(loc.k) = {}
          /\ loc' = [loc EXCEPT !.k = Len(VNFChain), !.isFeasible = TRUE]
       \/ /\ BelowFrom(loc.k) # {}
          /\ LET k == CHOOSE d \in BelowFrom(loc.k) : \A e \in BelowFrom(loc.k) : d <= e
                 i == getSolutionAvail_k(xSol, k).leastAvailableSection
             IN /\ getNodeToInstall(getVNF_i(k, i), k, ySol, remainingCapacity) = 0 - 1
                /\ loc' = [loc EXCEPT !.k = k, !.isFeasible = FALSE]
    /\ trace' = IF trace[Len(trace)].op = "runHeuristic_Phase_II" THEN trace
                 ELSE Append(trace, Did("runHeuristic_Phase_II", 0))
    /\ pc' = "afterPhase_II"
    /\ UNCHANGED <<thread_flag, constraints, data, input, cutPool, xSol, ySol, objSol, remainingCapacity, nbCuts,
                   nbLazyConstraints, nb_cuts_avail_heuristic, ctx, host>>

\* runHeuristic after Phase II: insertHeuristicSolution when the solution is
\* feasible and improves the incumbent
PostHeuristicSolution ==
    /\ pc = "afterPhase_II"
    /\ IF ShouldPost(loc.isFeasible, objSol, ctx.incumbentObjective)
       THEN /\ host' = [host EXCEPT !.posted =
                           Append(@, [x |-> xSol, y |-> ySol, objVal |-> PostedObjective(ySol)])]
            /\ trace' = Append(trace, Did("insertHeuristicSolution", 0))
       ELSE UNCHANGED <<host, trace>>
    /\ pc' = "return"
    /\ UNCHANGED <<thread_flag, constraints, data, input, cutPool, xSol, ySol, objSol, remainingCapacity, nbCuts,
                   nbLazyConstraints, nb_cuts_avail_heuristic, ctx, loc>>

InitLazy == \E d \in LazyData : Constructed(d, AllOn)

NextLazy == InvokeCandidate \/ InvokeCandidateRay \/ Return

SpecLazy == InitLazy /\ [][NextLazy]_vars

(***************************************************************************)
(* What the claims speak about: 0/1 assignments and their true             *)
(* availability.                                                           *)
(***************************************************************************)
\* nodes assigned to section i of demand k in a 0/1 assignment A
AssignedNodes(A, k, i) == {v \in Nodes : A[<<k, i, v>>] = XUnit}

\* product over the sections of 1 - prod(1 - avail(v)) over the assigned nodes
TrueChainAvailability(A, k) ==
    getChainAvailability(
        [j \in 1 .. NbVNFs(k) |-> RCompl(getFailureProb(AssignedNodes(A, k, j - 1)))])

MeetsSLA(A, k) == RLe(getReqAvail(k), TrueChainAvailability(A, k))

\* load of node v under A: sum of bandwidth x consumption over the assigned
\* (demand, section) pairs
NodeLoad(A, v) ==
    SumF([t \in XVars |-> IF t[3] = v /\ A[t] = XUnit
                           THEN getBandwidth(t[1]) * getConsumption(getVNF_i(t[1], t[2]))
                           ELSE 0], XVars)

RespectsCapacities(A) == \A v \in Nodes : NodeLoad(A, v) <= getCapacity(v)

FeasibleAssignment(A) == RespectsCapacities(A) /\ \A k \in Demands : MeetsSLA(A, k)

\* a cut holds at a point (both sides in units of 1e-4 / XUnit)
CutSatisfied(cut, A) == CutValue(cut, A) >= cut.lb * XUnit

\* the 0/1 assignments of one demand, the other demands left empty
AssignmentsOf(k) ==
    {[t \in XVars |-> IF t \in P THEN XUnit ELSE 0] :
        P \in SUBSET {t \in XVars : t[1] = k}}

CandidateChecked == pc = "return" /\ ctx.id = "Candidate" /\ ctx.isCandidatePoint

RejectedFor(k) == \E j \in 1 .. Len(host.rejected) : host.rejected[j].k = k

\* C1: a candidate in which some demand's true chain availability is below
\* the demand's required availability is rejected by the candidate
\* invocation, for each such demand.
C1_CandidateBelowSLAIsRejected ==
    CandidateChecked =>
        \A k \in Demands : ~MeetsSLA(ctx.point, k) => RejectedFor(k)

\* a candidate whose two-section demand fails only with both sections has
\* been rejected
C1_Witness ==
    /\ CandidateChecked
    /\ ~MeetsSLA(ctx.point, 0)
    /\ \E j \in 1 .. Len(host.rejected) :
           host.rejected[j].k = 0 /\ host.rejected[j].nb = 2

\* C2: the nogood submitted after lift holds for every 0/1 assignment in
\* which the demand reaches its required availability.
C2_LiftedNogoodIsSound ==
    CandidateChecked =>
        \A j \in 1 .. Len(host.rejected) :
            \A B \in AssignmentsOf(host.rejected[j].k) :
                MeetsSLA(B, host.rejected[j].k)
                    => \E t \in host.rejected[j].vars : B[t] = XUnit

\* a rejected candidate whose nogood was lifted, for a demand that some
\* assignment can serve
C2_Witness ==
    /\ CandidateChecked
    /\ \E j \in 1 .. Len(host.rejected) :
          LET k == host.rejected[j].k
          IN /\ \E t \in XVars : t[1] = k /\ xSol[t] # ctx.point[t]
             /\ host.rejected[j].vars # {}
             /\ \E B \in AssignmentsOf(k) : MeetsSLA(B, k)

\* C3: every cut of the pool holds for every 0/1 assignment that respects
\* the node capacities and serves every demand at its required availability.
C3_PoolCutsAreValid ==
    (CandidateChecked /\ FeasibleAssignment(ctx.point)) =>
        \A j \in 1 .. Len(cutPool) : CutSatisfied(cutPool[j], ctx.point)

\* a feasible assignment met with a pool holding the three families
C3_Witness ==
    /\ CandidateChecked
    /\ FeasibleAssignment(ctx.point)
    /\ \E j \in 1 .. Len(cutPool) : cutPool[j].name[1] = "NodeCover"
    /\ \E j \in 1 .. Len(cutPool) : cutPool[j].name[1] = "VNF_LowerBound"
    /\ \E j \in 1 .. Len(cutPool) : cutPool[j].name[1] = "Section_Fail"

(***************************************************************************)
(* The callback under relaxation and candidate events.                     *)
(***************************************************************************)
\* two instances.  In the first, the one-section demand needs both nodes
\* and the two-section demand needs the better node in both sections; in
\* the second, the two-section demand needs both nodes in both sections.
MainData ==
    {[avail |-> [v \in Nodes |-> IF v = 0 THEN ThreeQuarters ELSE Half],
      capacity |-> [v \in Nodes |-> IF v = 0 THEN 3 ELSE 2],
      reqAvail |-> [k \in Demands |-> IF k = 0 THEN Half ELSE SevenEighths],
      bandwidth |-> [k \in Demands |-> 1],
      consumption |-> [f \in Vnfs |-> 1],
      cost |-> [t \in YVars |-> 1 + t[1]]],
     [avail |-> [v \in Nodes |-> IF v = 0 THEN ThreeQuarters ELSE Half],
      capacity |-> [v \in Nodes |-> 3],
      reqAvail |-> [k \in Demands |-> IF k = 0 THEN ThreeQuarters ELSE Half],
      bandwidth |-> [k \in Demands |-> 1],
      consumption |-> [f \in Vnfs |-> 1],
      cost |-> [t \in YVars |-> 1 + t[1]]]}

MainInputs ==
    {AllOn,
     [AllOn EXCEPT !.heuristic = FALSE, !.chainCover = FALSE],
     [AllOn EXCEPT !.approximationNone = FALSE, !.availabilityUsercuts = FALSE],
     [AllOn EXCEPT !.nodeCover = FALSE, !.vnfLowerBound = FALSE,
                   !.sectionFailure = FALSE, !.lazy = FALSE]}

Init == \E d \in MainData, c \in MainInputs : Constructed(d, c)

Next ==
    \/ InvokeRelaxation
    \/ CheckCutPool
    \/ GeneralizedCoverSeparation
    \/ ChainCoverSeparation
    \/ HeuristicSeparation
    \/ RunHeuristic
    \/ Phase_I_y
    \/ Phase_I_x
    \/ Phase_II_Repair
    \/ Phase_II_Return
    \/ PostHeuristicSolution
    \/ InvokeCandidate
    \/ InvokeCandidateRay
    \/ InvokeOther
    \/ Return

Spec == Init /\ [][Next]_vars

(***************************************************************************)
(* The pool checked twice on one relaxation point.                         *)
(***************************************************************************)
\* getFractionalSolution and a first checkCutPool at a relaxation point
FirstPoolCheck ==
    /\ pc = "idle"
    /\ WithinBounds
    /\ \E point \in RelaxationPoints :
         LET added == checkCutPool(point)
         IN /\ ctx' = [NoContext EXCEPT !.id = "Relaxation", !.point = point]
            /\ xSol' = point
            /\ host' = [host EXCEPT !.userCuts = added]
            /\ nbCuts' = nbCuts + Len(added)
            /\ loc' = [NoLocals EXCEPT !.current_number_of_cuts = nbCuts,
                                       !.found_violated_cut = (added # <<>>)]
            /\ trace' = <<Did("getFractionalSolution", 0), Did("checkCutPool", Len(added))>>
    /\ pc' = "checkCutPool"
    /\ UNCHANGED <<thread_flag, constraints, data, input, cutPool, ySol, objSol, remainingCapacity,
                   nbLazyConstraints, nb_cuts_avail_heuristic>>

\* checkCutPool once more, the context and the pool being what they were
SecondPoolCheck ==
    /\ pc = "checkCutPool"
    /\ LET added == checkCutPool(ctx.point)
       IN /\ host' = [host EXCEPT !.userCuts = @ \o added]
          /\ nbCuts' = nbCuts + Len(added)
          /\ loc' = [loc EXCEPT !.found_violated_cut = (added # <<>>)]
          /\ trace' = Append(trace, Did("checkCutPool", Len(added)))
    /\ pc' = "return"
    /\ UNCHANGED <<thread_flag, constraints, data, input, cutPool, xSol, ySol, objSol, remainingCapacity,
                   nbLazyConstraints, nb_cuts_avail_heuristic, ctx>>

InitRecheck == \E d \in MainData : Constructed(d, AllOn)

NextRecheck == FirstPoolCheck \/ SecondPoolCheck \/ Return

SpecRecheck == InitRecheck /\ [][NextRecheck]_vars

(***************************************************************************)
(* Properties of the relaxation events.                                    *)
(***************************************************************************)
\* the assignment of demand k to the positions of zero alone
PositionsAssigned(zero, k) ==
    [t \in XVars |-> IF t[1] = k /\ <<t[2], t[3]>> \in zero THEN XUnit ELSE 0]

\* C4: every cut emitted by the heuristic availability-cover separation for
\* a demand holds for every 0/1 assignment in which the demand reaches its
\* required availability, and the positions at coefficient 0 when the cut
\* is emitted give, alone, a chain availability strictly below it.
C4_HeuristicCoverCutIsValid ==
    \A j \in 1 .. Len(host.greedy) :
        LET g == host.greedy[j]
            k == g.cut.name[2]
        IN /\ \E l \in 1 .. Len(host.userCuts) : host.userCuts[l] = g.cut
           /\ g.cut.lb = EpsInv
           /\ \A t \in XVars :
                 g.cut.coef[t] = IF t[1] = k /\ <<t[2], t[3]>> \notin g.h.zero
                                 THEN EpsInv ELSE 0
           /\ ~MeetsSLA(PositionsAssigned(g.h.zero, k), k)
           /\ \A A \in AssignmentsOf(k) : MeetsSLA(A, k) => CutSatisfied(g.cut, A)

\* a cut emitted after the greedy added a position to the initial ones, for
\* a demand that some assignment serves
C4_Witness ==
    \E j \in 1 .. Len(host.greedy) :
        LET g == host.greedy[j]
            k == g.cut.name[2]
        IN /\ g.h.zero # initiateHeuristic(k, ctx.point).zero
           /\ \E A \in AssignmentsOf(k) : MeetsSLA(A, k)

InMatheuristic == pc \in {"Phase_I_x", "Phase_II", "afterPhase_II"}

\* C5: at every step of Phase I and Phase II the load of every node under
\* xSol (bandwidth x consumption over the pairs assigned to it) is at most
\* its capacity, and remainingCapacity is never negative.
C5_MatheuristicRespectsCapacities ==
    /\ \A v \in Nodes : remainingCapacity[v] >= 0
    /\ InMatheuristic => \A v \in Nodes : NodeLoad(xSol, v) <= getCapacity(v)

\* Phase II has installed a node and some node is full
C5_Witness ==
    /\ pc = "Phase_II"
    /\ trace[Len(trace)].op = "runHeuristic_Phase_II"
    /\ \E v \in Nodes : remainingCapacity[v] = 0 /\ NodeLoad(xSol, v) = getCapacity(v)

\* C6: a posted solution comes from a successful Phase II, serves every
\* demand at its required availability with the posted x, and costs
\* strictly less than the incumbent.
C6_PostedSolutionIsFeasibleAndBetter ==
    \A j \in 1 .. Len(host.posted) :
        /\ loc.isFeasible
        /\ \A k \in Demands : MeetsSLA(host.posted[j].x, k)
        /\ host.posted[j].objVal < ctx.incumbentObjective

\* a solution has been posted after Phase II installed a node
C6_Witness ==
    /\ host.posted # <<>>
    /\ \E j \in 1 .. Len(trace) : trace[j].op = "runHeuristic_Phase_II"
    /\ \E t \in XVars : host.posted[1].x[t] = XUnit /\ ctx.point[t] < XUnit

PoolChecked == ctx.id = "Relaxation" /\ pc \notin {"idle", "addUserCuts"}

\* left-hand side below the lower bound minus 1e-4, or above the upper
\* bound plus 1e-4
OutsideBoundsByEPS(cut, point) ==
    \/ CutValue(cut, point) + XUnit < cut.lb * XUnit
    \/ cut.hasUb /\ CutValue(cut, point) > cut.ub * XUnit + XUnit

\* C7: on a relaxation event checkCutPool submits exactly the pool cuts
\* whose left-hand side at the point is outside the bounds by more than
\* 1e-4, in one pass, counts each of them once, and returns true iff it
\* submitted one.
C7_PoolCheckSubmitsTheViolatedCuts ==
    PoolChecked =>
        LET violated == SelectSeq(cutPool, LAMBDA cut : OutsideBoundsByEPS(cut, ctx.point))
        IN /\ trace[2] = Did("checkCutPool", Len(violated))
           /\ SubSeq(host.userCuts, 1, Len(violated)) = violated
           /\ loc.found_violated_cut <=> (violated # <<>>)
           /\ loc.found_violated_cut =>
                 /\ host.userCuts = violated
                 /\ nbCuts = loc.current_number_of_cuts + Len(violated)

\* a check that submitted a cut, but not a cut whose left-hand side is
\* below its bound by less than 1e-4
C7_Witness ==
    /\ PoolChecked
    /\ loc.found_violated_cut
    /\ Len(host.userCuts) < Len(cutPool)
    /\ \E j \in 1 .. Len(cutPool) :
          /\ CutValue(cutPool[j], ctx.point) < cutPool[j].lb * XUnit
          /\ \A l \in 1 .. Len(host.userCuts) : host.userCuts[l] # cutPool[j]

Rechecked == pc = "return" /\ Len(trace) = 3 /\ trace[3].op = "checkCutPool"

\* C8 (amended): a second checkCutPool on the same relaxation point submits
\* the cuts the first one submitted, once more and in the same order, and
\* adds their number to the counter again; it adds nothing exactly when no
\* pool cut is violated at the point.
C8_RecheckSubmitsTheSameCutsAgain ==
    Rechecked =>
        LET first == SubSeq(host.userCuts, 1, trace[2].cuts)
            second == SubSeq(host.userCuts, trace[2].cuts + 1, Len(host.userCuts))
        IN /\ second = first
           /\ nbCuts = loc.current_number_of_cuts + 2 * Len(first)
           /\ (second = <<>>) <=>
                 \A j \in 1 .. Len(cutPool) : ~OutsideBoundsByEPS(cutPool[j], ctx.point)

\* a second check that submitted again the cuts of the first
C8_Witness ==
    /\ Rechecked
    /\ trace[2].cuts > 0
    /\ trace[3].cuts > 0

\* C8 as stated: the second check submits no cut the first one submitted
\* and leaves the counter unchanged.
C8_RecheckAddsNothing ==
    Rechecked =>
        LET first == SubSeq(host.userCuts, 1, trace[2].cuts)
            second == SubSeq(host.userCuts, trace[2].cuts + 1, Len(host.userCuts))
        IN /\ \A i \in 1 .. Len(first), j \in 1 .. Len(second) : first[i] # second[j]
           /\ nbCuts = loc.current_number_of_cuts + Len(first)

DynamicSeparations ==
    {"generalizedCoverSeparation", "chainCoverSeparation", "heuristicSeparation"}

MatheuristicSteps ==
    {"runHeuristic", "heuristicRule", "runHeuristic_Phase_I", "runHeuristic_Phase_II",
     "insertHeuristicSolution"}

\* C9: in a relaxation invocation the pool check comes before any dynamic
\* separation, a dynamic separation runs only if the pool check submitted
\* nothing, and the matheuristic comes after the pool check and after every
\* dynamic separation.
C9_PoolThenSeparationThenMatheuristic ==
    ctx.id = "Relaxation" =>
        \A j \in 1 .. Len(trace) :
            /\ trace[j].op \in DynamicSeparations =>
                  \E i \in 1 .. j - 1 : trace[i] = Did("checkCutPool", 0)
            /\ trace[j].op \in MatheuristicSteps =>
                  /\ \E i \in 1 .. j - 1 : trace[i].op = "checkCutPool"
                  /\ \A i \in j .. Len(trace) :
                        trace[i].op \notin DynamicSeparations \cup {"checkCutPool"}
            /\ trace[j].op = "checkCutPool" =>
                  \A i \in 1 .. j - 1 : trace[i].op = "getFractionalSolution"

\* an invocation that went through the pool check, the three dynamic
\* separations and the matheuristic
C9_Witness ==
    /\ ctx.id = "Relaxation"
    /\ Len(trace) >= 7
    /\ trace[2] = Did("checkCutPool", 0)
    /\ trace[3].op = "generalizedCoverSeparation"
    /\ trace[4].op = "chainCoverSeparation"
    /\ trace[5].op = "heuristicSeparation"
    /\ trace[6].op = "runHeuristic"
    /\ \E j \in 7 .. Len(trace) : trace[j].op = "runHeuristic_Phase_I"

PhasesRan ==
    \/ pc \in {"Phase_I", "Phase_I_x", "Phase_II", "afterPhase_II"}
    \/ host.posted # <<>>
    \/ \E j \in 1 .. Len(trace) :
          trace[j].op \in {"runHeuristic_Phase_I", "runHeuristic_Phase_II",
                            "insertHeuristicSolution"}

\* C10: Phase I and Phase II run, and a solution is posted, only on a
\* relaxation event, with heuristics enabled, approximation type NONE, and
\* a draw at most (incumbent - relaxation objective) / incumbent.
C10_MatheuristicRunsOnlyWhenAllowed ==
    PhasesRan =>
        /\ ctx.id = "Relaxation"
        /\ input.heuristic
        /\ input.approximationNone
        /\ RLe(Rat(loc.RND, XUnit),
               RDiv(Rat(ctx.incumbentObjective - loc.OBJ, 1), Rat(ctx.incumbentObjective, 1)))

\* Phase I is about to run after a draw equal to the limit
C10_Witness ==
    /\ pc = "Phase_I"
    /\ loc.RND > 0
    /\ loc.RND * ctx.incumbentObjective = (ctx.incumbentObjective - loc.OBJ) * XUnit

(***************************************************************************)
(* Error handling of the matheuristic and of invoke.                       *)
(***************************************************************************)
\* Phase II has returned false: getNodeToInstall returned -1 for the section
\* under repair
PhaseIIFailed ==
    /\ \E j \in 1 .. Len(trace) : trace[j].op = "runHeuristic_Phase_II"
    /\ pc # "Phase_II"
    /\ ~loc.isFeasible

\* C11: when Phase II finds no node with enough remaining capacity for the
\* section it repairs, the matheuristic stops for this event: nothing is
\* posted, no cut or rejection is submitted, no counter moves, no exception
\* is raised and the invocation goes on to its normal return.
C11_FailedRepairStopsQuietly ==
    PhaseIIFailed =>
        /\ pc \in {"afterPhase_II", "return"}
        /\ host = NoSubmission
        /\ nbCuts = loc.current_number_of_cuts
        /\ trace[Len(trace)].op = "runHeuristic_Phase_II"

\* the invocation has returned after a failed repair whose solution was
\* cheaper than the incumbent
C11_Witness ==
    /\ PhaseIIFailed
    /\ pc = "return"
    /\ objSol < ctx.incumbentObjective

\* C12: an invocation whose context id is neither Relaxation nor Candidate
\* ends in the exception of the default case: it never reaches the return of
\* invoke and it has submitted no cut, no rejection and no solution.
C12_UnexpectedContextAborts ==
    ctx.id \in UnexpectedIds =>
        /\ pc = "aborted"
        /\ host = NoSubmission
        /\ trace = <<>>

C12_Witness == pc = "aborted" /\ ctx.id = "Branching" /\ nbCuts = 0

\* a candidate event whose context holds no candidate point
CandidateWithoutPoint == ctx.id = "Candidate" /\ ~ctx.isCandidatePoint

\* C13, as the code behaves: a candidate event without a candidate point
\* goes straight to the return of invoke; getIntegerSolution, which holds
\* the exception for this case, is not called and nothing is checked.
C13_CandidateWithoutPointReturns ==
    CandidateWithoutPoint =>
        /\ pc = "return"
        /\ trace = <<>>
        /\ host = NoSubmission

C13_Witness == CandidateWithoutPoint /\ pc = "return" /\ input.lazy

\* C13, as stated: a candidate event without a candidate point aborts the
\* run and never returns normally
C13_CandidateWithoutPointAborts == CandidateWithoutPoint => pc = "aborted"

(***************************************************************************)
(* Invocations from several workers of the host.  The members of Callback  *)
(* are shared; ctx, pc, loc and host hold one value per worker, and trace  *)
(* tallies what has been submitted to the host by all of them.             *)
(***************************************************************************)
Workers == 1 .. NbWorkers

\* locals of the invocation of one worker: t, j and k are the positions of
\* the loops over the entries of xSol, the cuts of the pool and the demands;
\* todo holds the increments to make before the invocation goes on at
\* `after`; reg is the value of a counter read under the lock; raced records
\* that another worker has written xSol during the invocation; launched
\* records that invoke has called runHeuristic
WorkerLocals ==
    [current_number_of_cuts |-> 0, t |-> 1, j |-> 1, k |-> 0, todo |-> <<>>,
     after |-> "return", reg |-> 0, raced |-> FALSE, invocations |-> 0,
     launched |-> FALSE]

\* the instance with capacity 3 on every node
WorkerData == {d \in MainData : \A v \in Nodes : d.capacity[v] = 3}

\* the matheuristic and the cover separations are off; the pool is filled
\* in the first configuration and empty in the second
WorkerInputs ==
    {[AllOn EXCEPT !.heuristic = FALSE, !.chainCover = FALSE],
     [AllOn EXCEPT !.heuristic = FALSE, !.chainCover = FALSE, !.nodeCover = FALSE,
                   !.vnfLowerBound = FALSE, !.sectionFailure = FALSE]}

\* the events a worker may receive: relaxation and candidate points with
\* node 0 alone in every section, with every node in every section, and
\* (candidates) with no node at all
WorkerEvents ==
    LET OnlyNode0 == [t \in XVars |-> IF t[3] = 0 THEN XUnit ELSE 0]
        EveryNode == [t \in XVars |-> XUnit]
        NoNode == [t \in XVars |-> 0]
    IN {[id |-> "Relaxation", point |-> p] :
           p \in {q \in {OnlyNode0, EveryNode} : ModelConstraintsHold(q)}}
       \cup {[id |-> "Candidate", point |-> p] : p \in {OnlyNode0, EveryNode, NoNode}}

InitWorkers ==
    \E d \in WorkerData, c \in WorkerInputs :
        /\ thread_flag = 0
        /\ data = d
        /\ constraints = setVnfAssignmentConstraints(Nodes, VNFChain)
        /\ input = c
        /\ cutPool = setCutPool
        /\ xSol = [t \in XVars |-> 0]
        /\ ySol = [t \in YVars |-> 0]
        /\ objSol = 0
        /\ remainingCapacity = [v \in Nodes |-> 0]
        /\ nbCuts = 0
        /\ nbLazyConstraints = 0
        /\ nb_cuts_avail_heuristic = 0
        /\ ctx = [w \in Workers |-> NoContext]
        /\ pc = [w \in Workers |-> "idle"]
        /\ loc = [w \in Workers |-> WorkerLocals]
        /\ host = [w \in Workers |-> NoSubmission]
        /\ trace = [userCuts |-> 0, rejected |-> 0, greedy |-> 0]

\* the locals of every worker after worker w has written x over xSol:
\* every other invocation in progress has been raced
Raced(w, x) ==
    [u \in Workers |->
        IF u # w /\ pc[u] # "idle" /\ x # xSol
        THEN [loc[u] EXCEPT !.raced = TRUE] ELSE loc[u]]

\* a mutation of CopiedEntry: the entry is not read from the context
CopiedEntryZero(point, t) == 0

\* the value get...Solution stores in xSol[k][i][v]
CopiedEntry(point, t) == point[t]

\* a mutation of MayLock: lock succeeds whoever holds the mutex
MayLockAlways(flag) == TRUE

\* thread_flag.lock() returns once the mutex is free
MayLock(flag) == flag = 0

\* the start of invoke on worker w
W_Invoke(w) ==
    /\ pc[w] = "idle"
    /\ loc[w].invocations < MaxInvocations
    /\ \E e \in WorkerEvents :
          /\ e.id = "Candidate" => input.lazy
          /\ ctx' = [ctx EXCEPT ![w] = [NoContext EXCEPT !.id = e.id, !.point = e.point,
                                            !.isCandidatePoint = (e.id = "Candidate")]]
          /\ loc' = [loc EXCEPT ![w] =
                        [WorkerLocals EXCEPT
                            !.invocations = loc[w].invocations + 1,
                            !.current_number_of_cuts =
                                IF e.id = "Relaxation" THEN nbCuts ELSE 0]]
          /\ pc' = [pc EXCEPT ![w] = invokeSwitch(e.id)]
    /\ host' = [host EXCEPT ![w] = NoSubmission]
    /\ UNCHANGED <<thread_flag, constraints, data, input, cutPool, xSol, ySol, objSol,
                   remainingCapacity, nbCuts, nbLazyConstraints,
                   nb_cuts_avail_heuristic, trace>>

\* getFractionalSolution and getIntegerSolution: one entry of xSol
W_GetSolution(w) ==
    /\ pc[w] \in {"addUserCuts", "addLazyConstraints"}
    /\ LET t == KIVList[loc[w].t]
           x == [xSol EXCEPT ![t] = CopiedEntry(ctx[w].point, t)]
           last == loc[w].t = Len(KIVList)
       IN /\ xSol' = x
          /\ loc' = [Raced(w, x) EXCEPT ![w].t = IF last THEN 1 ELSE @ + 1]
          /\ pc' = [pc EXCEPT ![w] =
                        IF ~last THEN @
                        ELSE IF @ = "addUserCuts" THEN "checkCutPool" ELSE "lazyDemand"]
    /\ UNCHANGED <<thread_flag, constraints, data, input, cutPool, ySol, objSol,
                   remainingCapacity, nbCuts, nbLazyConstraints,
                   nb_cuts_avail_heuristic, ctx, host, trace>>

\* checkCutPool from the cut of index loc[w].j: up to the next violated
\* cut, which is submitted, or to the end of the pool.  With CHAIN_COVER_OFF
\* and HEURISTIC_OFF, addUserCuts goes on with the heuristic separation when
\* no pool cut was violated; invoke then reads the user-cut counter again.
W_CheckCutPool(w) ==
    /\ pc[w] = "checkCutPool"
    /\ ~input.chainCover /\ ~input.heuristic
    /\ LET viol == {j \in loc[w].j .. Len(cutPool) :
                        PoolCutViolated(cutPool[j], ctx[w].point)}
       IN IF viol = {}
          THEN /\ pc' = [pc EXCEPT ![w] =
                             IF host[w].userCuts = <<>> /\ input.availabilityUsercuts
                             THEN "heuristicSeparation" ELSE "afterUserCuts"]
               /\ UNCHANGED <<loc, host, trace>>
          ELSE LET j == CHOOSE m \in viol : \A n \in viol : m <= n
               IN /\ host' = [host EXCEPT ![w].userCuts = Append(@, cutPool[j])]
                  /\ trace' = [trace EXCEPT !.userCuts = @ + 1]
                  /\ loc' = [loc EXCEPT ![w].j = j + 1, ![w].todo = <<"nbCuts">>,
                                        ![w].after = "checkCutPool"]
                  /\ pc' = [pc EXCEPT ![w] = "lock"]
    /\ UNCHANGED <<thread_flag, constraints, data, input, cutPool, xSol, ySol, objSol,
                   remainingCapacity, nbCuts, nbLazyConstraints,
                   nb_cuts_avail_heuristic, ctx>>

\* heuristicSeparationOfAvailibilityConstraints, the demand loc[w].k
W_HeuristicSeparation(w) ==
    /\ pc[w] = "heuristicSeparation"
    /\ IF loc[w].k >= Len(VNFChain)
       THEN /\ pc' = [pc EXCEPT ![w] = "afterUserCuts"]
            /\ UNCHANGED <<loc, host, trace>>
       ELSE LET added == HeurOfDemand(loc[w].k, xSol)
            IN IF added = <<>>
               THEN /\ loc' = [loc EXCEPT ![w].k = @ + 1]
                    /\ UNCHANGED <<pc, host, trace>>
               ELSE /\ host' = [host EXCEPT ![w].userCuts = Append(@, added[1].cut),
                                            ![w].greedy = @ \o added]
                    /\ trace' = [trace EXCEPT !.userCuts = @ + 1, !.greedy = @ + 1]
                    /\ loc' = [loc EXCEPT ![w].k = @ + 1,
                                          ![w].todo = <<"nb_cuts_avail_heuristic", "nbCuts">>,
                                          ![w].after = "heuristicSeparation"]
                    /\ pc' = [pc EXCEPT ![w] = "lock"]
    /\ UNCHANGED <<thread_flag, constraints, data, input, cutPool, xSol, ySol, objSol,
                   remainingCapacity, nbCuts, nbLazyConstraints,
                   nb_cuts_avail_heuristic, ctx>>

\* addLazyConstraints, the demand loc[w].k: lift writes xSol
W_LazyDemand(w) ==
    /\ pc[w] = "lazyDemand"
    /\ IF loc[w].k >= Len(VNFChain)
       THEN /\ pc' = [pc EXCEPT ![w] = "return"]
            /\ UNCHANGED <<xSol, loc, host, trace>>
       ELSE LET st == LazyDemand([x |-> xSol, rejected |-> host[w].rejected], loc[w].k)
                rejects == Len(st.rejected) > Len(host[w].rejected)
            IN /\ xSol' = st.x
               /\ host' = [host EXCEPT ![w].rejected = st.rejected]
               /\ trace' = [trace EXCEPT !.rejected = IF rejects THEN @ + 1 ELSE @]
               /\ loc' = [Raced(w, st.x) EXCEPT
                             ![w].k = @ + 1,
                             ![w].todo = IF rejects THEN <<"nbLazyConstraints">> ELSE <<>>,
                             ![w].after = "lazyDemand"]
               /\ pc' = [pc EXCEPT ![w] = IF rejects THEN "lock" ELSE @]
    /\ UNCHANGED <<thread_flag, constraints, data, input, cutPool, ySol, objSol,
                   remainingCapacity, nbCuts, nbLazyConstraints,
                   nb_cuts_avail_heuristic, ctx>>

\* a mutation of noAdditionalCut: runHeuristic is always called
noAdditionalCutAlways(current_number_of_cuts, nb) == TRUE

\* the test of invoke before runHeuristic
noAdditionalCut(current_number_of_cuts, nb) == current_number_of_cuts = nb

\* invoke after addUserCuts: getNbUserCuts() is read without the lock and
\* runHeuristic is called when the value is the one read at the start; with
\* HEURISTIC_OFF runHeuristic returns at once
W_AfterUserCuts(w) ==
    /\ pc[w] = "afterUserCuts"
    /\ loc' = [loc EXCEPT ![w].launched =
                  noAdditionalCut(loc[w].current_number_of_cuts, nbCuts)]
    /\ pc' = [pc EXCEPT ![w] = "return"]
    /\ UNCHANGED <<thread_flag, constraints, data, input, cutPool, xSol, ySol, objSol,
                   remainingCapacity, nbCuts, nbLazyConstraints,
                   nb_cuts_avail_heuristic, ctx, host, trace>>

\* the value of the counter named c
CounterValue(c) ==
    IF c = "nbCuts" THEN nbCuts
    ELSE IF c = "nbLazyConstraints" THEN nbLazyConstraints
    ELSE nb_cuts_avail_heuristic

\* increment...: thread_flag.lock() and the read of ++counter
W_Lock(w) ==
    /\ pc[w] = "lock"
    /\ MayLock(thread_flag)
    /\ thread_flag' = w
    /\ loc' = [loc EXCEPT ![w].reg = CounterValue(Head(loc[w].todo))]
    /\ pc' = [pc EXCEPT ![w] = "unlock"]
    /\ UNCHANGED <<constraints, data, input, cutPool, xSol, ySol, objSol,
                   remainingCapacity, nbCuts, nbLazyConstraints,
                   nb_cuts_avail_heuristic, ctx, host, trace>>

\* increment...: the write of ++counter and thread_flag.unlock()
W_Unlock(w) ==
    /\ pc[w] = "unlock"
    /\ LET c == Head(loc[w].todo)
           rest == Tail(loc[w].todo)
       IN /\ nbCuts' = IF c = "nbCuts" THEN loc[w].reg + 1 ELSE nbCuts
          /\ nbLazyConstraints' =
                IF c = "nbLazyConstraints" THEN loc[w].reg + 1 ELSE nbLazyConstraints
          /\ nb_cuts_avail_heuristic' =
                IF c = "nb_cuts_avail_heuristic" THEN loc[w].reg + 1
                ELSE nb_cuts_avail_heuristic
          /\ loc' = [loc EXCEPT ![w].todo = rest]
          /\ pc' = [pc EXCEPT ![w] = IF rest = <<>> THEN loc[w].after ELSE "lock"]
    /\ thread_flag' = 0
    /\ UNCHANGED <<constraints, data, input, cutPool, xSol, ySol, objSol,
                   remainingCapacity, ctx, host, trace>>

\* the end of invoke: incrementTime takes and releases the mutex
W_Return(w) ==
    /\ pc[w] = "return"
    /\ MayLock(thread_flag)
    /\ pc' = [pc EXCEPT ![w] = "idle"]
    /\ UNCHANGED <<thread_flag, constraints, data, input, cutPool, xSol, ySol, objSol,
                   remainingCapacity, nbCuts, nbLazyConstraints,
                   nb_cuts_avail_heuristic, ctx, loc, host, trace>>

NextWorkers ==
    \E w \in Workers :
        \/ W_Invoke(w)
        \/ W_GetSolution(w)
        \/ W_CheckCutPool(w)
        \/ W_HeuristicSeparation(w)
        \/ W_LazyDemand(w)
        \/ W_AfterUserCuts(w)
        \/ W_Lock(w)
        \/ W_Unlock(w)
        \/ W_Return(w)

SpecWorkers == InitWorkers /\ [][NextWorkers]_vars

(***************************************************************************)
(* Concurrency.                                                            *)
(***************************************************************************)
\* the increments of counter c that invocations in progress have yet to make
RECURSIVE Pending(_, _)
Pending(c, W) ==
    IF W = {} THEN 0
    ELSE LET w == CHOOSE u \in W : TRUE
         IN Len(SelectSeq(loc[w].todo, LAMBDA n : n = c)) + Pending(c, W \ {w})

Quiescent == \A w \in Workers : pc[w] = "idle"

\* C14: whatever the interleaving of the invocations of several workers, no
\* increment is lost: each counter, plus the increments still to be made by
\* the invocations in progress, equals the number of submissions of its
\* kind (user cuts, candidate rejections, heuristic availability cuts); so
\* the counters equal these numbers once every invocation has returned.
C14_NoCounterUpdateIsLost ==
    /\ nbCuts + Pending("nbCuts", Workers) = trace.userCuts
    /\ nbLazyConstraints + Pending("nbLazyConstraints", Workers) = trace.rejected
    /\ nb_cuts_avail_heuristic + Pending("nb_cuts_avail_heuristic", Workers)
           = trace.greedy
    /\ Quiescent =>
          /\ nbCuts = trace.userCuts
          /\ nbLazyConstraints = trace.rejected
          /\ nb_cuts_avail_heuristic = trace.greedy

\* every worker has returned from an invocation that overlapped another one
\* and submitted something, and the three counters have moved
C14_Witness ==
    /\ Quiescent
    /\ \A w \in Workers :
          /\ loc[w].raced
          /\ host[w].userCuts # <<>> \/ host[w].rejected # <<>>
    /\ nbCuts >= 1 /\ nbLazyConstraints >= 1 /\ nb_cuts_avail_heuristic >= 1

\* what an invocation submits when it runs alone on the point of its event
AloneOutcome(c) ==
    IF c.id = "Candidate"
    THEN [userCuts |-> <<>>, rejected |-> addLazyConstraints(c.point).rejected]
    ELSE LET pool == checkCutPool(c.point)
             heur == heuristicSeparation(c.point)
         IN [userCuts |-> IF pool # <<>> \/ ~input.availabilityUsercuts THEN pool
                          ELSE [j \in 1 .. Len(heur) |-> heur[j].cut],
             rejected |-> <<>>]

Outcome(w) == [userCuts |-> host[w].userCuts, rejected |-> host[w].rejected]

Returned(w) == pc[w] = "idle" /\ loc[w].invocations > 0

\* C15, as the code behaves: an invocation during which no other worker has
\* written xSol submits what it would submit alone on its own point.
C15_UndisturbedInvocationIsAsAlone ==
    \A w \in Workers :
        Returned(w) /\ ~loc[w].raced => Outcome(w) = AloneOutcome(ctx[w])

\* two invocations have returned, the second started after the last write
\* of the first, and both submitted something
C15_Witness ==
    /\ Quiescent
    /\ \E w \in Workers : ~loc[w].raced /\ host[w].rejected # <<>>
    /\ \E w \in Workers : ~loc[w].raced /\ host[w].userCuts # <<>>

\* C15, as stated: when invocations of different workers interleave, each
\* submits what it would submit alone on the point of its own event
C15_InterleavedInvocationIsAsAlone ==
    \A w \in Workers : Returned(w) => Outcome(w) = AloneOutcome(ctx[w])

(***************************************************************************)
(* The coefficients of the node-cover cuts.                                *)
(***************************************************************************)
NodeCoverCuts == {j \in 1 .. Len(cutPool) : cutPool[j].name[1] = "NodeCover"}

\* the coefficient of node u in the node-cover cut of index j
CoverCoeffOf(j, u) == cutPool[j].coef[<<cutPool[j].name[2], cutPool[j].name[3], u>>]

\* C16, amended: within a node-cover cut the coefficients are non-increasing
\* as the availability rank worsens: a more available node j1 has
\* coeff(j1) >= coeff(j2); and the most available node has a coefficient
\* strictly larger than the node v the cut is built for.
C16_CoverCoefficientsDoNotIncreaseWithRank ==
    \A j \in NodeCoverCuts :
        /\ \A j1, j2 \in Nodes :
              getNodeRankPosition(j1) < getNodeRankPosition(j2)
                  => CoverCoeffOf(j, j1) >= CoverCoeffOf(j, j2)
        /\ CoverCoeffOf(j, getAvailNodeRank[1]) > CoverCoeffOf(j, cutPool[j].name[4])

\* a candidate has been checked on an instance whose pool holds a node-cover
\* cut in which the more available node counts twice or more
C16_Witness ==
    /\ pc = "return"
    /\ \E j \in NodeCoverCuts :
          \E j1, j2 \in Nodes :
              /\ getNodeRankPosition(j1) < getNodeRankPosition(j2)
              /\ CoverCoeffOf(j, j1) >= 2 * CoverCoeffOf(j, j2)

\* C16, as stated: within a node-cover cut the coefficients are
\* non-decreasing as the rank worsens: coeff(j1) <= coeff(j2) for j1 more
\* available than j2
C16_CoverCoefficientsDoNotDecreaseWithRank ==
    \A j \in NodeCoverCuts :
        \A j1, j2 \in Nodes :
            getNodeRankPosition(j1) < getNodeRankPosition(j2)
                => CoverCoeffOf(j, j1) <= CoverCoeffOf(j, j2)

(***************************************************************************)
(* The VNF assignment constraints of the model, on instances of three      *)
(* nodes and one demand.                                                   *)
(***************************************************************************)
\* three nodes of capacity 10 with availabilities among 0.5, 0.8, 0.9 and
\* 0.93; one demand of one or two sections, bandwidth 1, consumption 1
AssignmentData ==
    [avail : [0 .. 2 -> {<<1, 2>>, <<4, 5>>, <<9, 10>>, <<93, 100>>}],
     capacity : {[v \in 0 .. 2 |-> 10]},
     reqAvail : [{0} -> {<<1, 2>>, <<3, 4>>, <<19, 20>>, <<99, 100>>}],
     chain : {<< <<0>> >>, << <<0, 1>> >>},
     bandwidth : {[k \in {0} |-> 1]},
     consumption : {[f \in Vnfs |-> 1]}]

\* the state when Model::setConstraints starts: no callback exists yet
InitAssignment ==
    /\ data \in AssignmentData
    /\ constraints = <<>>
    /\ thread_flag = 0
    /\ input = AllOn
    /\ cutPool = <<>>
    /\ xSol = <<>>
    /\ ySol = <<>>
    /\ objSol = 0
    /\ remainingCapacity = <<>>
    /\ nbCuts = 0
    /\ nbLazyConstraints = 0
    /\ nb_cuts_avail_heuristic = 0
    /\ ctx = NoContext
    /\ pc = "setVnfAssignmentConstraints"
    /\ loc = NoLocals
    /\ host = NoSubmission
    /\ trace = <<>>

SetVnfAssignmentConstraints ==
    /\ pc = "setVnfAssignmentConstraints"
    /\ IF VnfAssignmentExits(DOMAIN data.avail, data.chain)
       THEN pc' = "exit" /\ UNCHANGED constraints
       ELSE /\ constraints' = setVnfAssignmentConstraints(DOMAIN data.avail, data.chain)
            /\ pc' = "setNodeCapacityConstraints"
    /\ UNCHANGED <<thread_flag, data, input, cutPool, xSol, ySol, objSol,
                   remainingCapacity, nbCuts, nbLazyConstraints,
                   nb_cuts_avail_heuristic, ctx, loc, host, trace>>

SpecAssignment == InitAssignment /\ [][SetVnfAssignmentConstraints]_vars

\* Scenario A: availabilities 0.90, 0.80 and 0.93, one demand of one section
\* with SLA 0.95
ScenarioA ==
    [avail |-> [v \in 0 .. 2 |-> <<<<9, 10>>, <<4, 5>>, <<93, 100>>>>[v + 1]],
     capacity |-> [v \in 0 .. 2 |-> 10],
     reqAvail |-> [k \in {0} |-> <<19, 20>>],
     chain |-> << <<0>> >>,
     bandwidth |-> [k \in {0} |-> 1],
     consumption |-> [f \in Vnfs |-> 1]]

\* availability of a section served by the nodes of S
ParallelAvailability(S) == RCompl(getFailureProb(S))

ScenarioB ==
    /\ CandidateChecked
    /\ AssignedNodes(ctx.point, 0, 1) = {}
    /\ \E v \in Nodes :
          AssignedNodes(ctx.point, 0, 0) = {v} /\ getAvailability(v) = Half

\* the rejections of demand k
RejectionsOf(k) == {j \in 1 .. Len(host.rejected) : host.rejected[j].k = k}

\* C18, amended: in Scenario B the violation is detected at prefix length 1,
\* the prefix being section 1, whose availability 0 comes first in ascending
\* order; the nogood ranges over nodes of section 1 only (those that lift
\* did not take), and over no node of section 0.
C18_ScenarioBNogoodIsOverTheEmptySection ==
    ScenarioB =>
        /\ Cardinality(RejectionsOf(0)) = 1
        /\ \A j \in RejectionsOf(0) :
              /\ host.rejected[j].nb = 1
              /\ host.rejected[j].sections = {1}
              /\ \A t \in host.rejected[j].vars : t[1] = 0 /\ t[2] = 1

\* Scenario B has been checked, and its nogood holds a variable
C18_Witness ==
    /\ ScenarioB
    /\ \E j \in RejectionsOf(0) : host.rejected[j].vars # {}

\* C18, as stated: in Scenario B the violation is detected at prefix length
\* 1 and the nogood ranges over the unassigned nodes of section 0
C18_ScenarioBNogoodIsOverSection0 ==
    ScenarioB =>
        \E j \in RejectionsOf(0) :
            /\ host.rejected[j].nb = 1
            /\ host.rejected[j].vars =
                  {<<0, 0, v>> : v \in Nodes \ AssignedNodes(ctx.point, 0, 0)}

\* product of the availabilities, at the candidate point, of the sections
\* of S of demand k
RECURSIVE ProductOf(_, _)
ProductOf(k, S) ==
    IF S = {} THEN ROne
    ELSE LET i == CHOOSE s \in S : TRUE
         IN RMul(RCompl(getFailureProb(AssignedNodes(ctx.point, k, i))),
                 ProductOf(k, S \ {i}))

\* the sets of p sections of demand k
SectionSets(k, p) == {S \in SUBSET Sections(k) : Cardinality(S) = p}

\* S has the least product among the sets of its size: S holds the
\* Cardinality(S) least available sections
LeastAvailable(k, S) ==
    \A T \in SectionSets(k, Cardinality(S)) : RLe(ProductOf(k, S), ProductOf(k, T))

\* the product of the p least available sections is below the requirement
PrefixViolates(k, p) ==
    \E S \in SectionSets(k, p) : RLt(ProductOf(k, S), getReqAvail(k))

\* C19: for each demand, a nogood is submitted iff the product of the p
\* least available sections is below the SLA for some p (p = the number of
\* sections included); then exactly one is submitted, its sections are the
\* p least available ones for the smallest such p, and no set of fewer
\* sections has a product below the SLA.
C19_NogoodIsTheSmallestViolatingPrefix ==
    CandidateChecked =>
        \A k \in Demands :
            /\ RejectionsOf(k) # {} <=> \E p \in 1 .. NbVNFs(k) : PrefixViolates(k, p)
            /\ Cardinality(RejectionsOf(k)) <= 1
            /\ \A j \in RejectionsOf(k) :
                  LET r == host.rejected[j]
                  IN /\ r.nb \in 1 .. NbVNFs(k)
                     /\ r.sections \in SectionSets(k, r.nb)
                     /\ LeastAvailable(k, r.sections)
                     /\ RLt(ProductOf(k, r.sections), getReqAvail(k))
                     /\ \A p \in 0 .. r.nb - 1 : ~PrefixViolates(k, p)

\* a candidate rejected for the two-section demand only once the last
\* section is included, the two sections differing in availability, while
\* the other demand is accepted
C19_Witness ==
    /\ CandidateChecked
    /\ RejectionsOf(1) = {}
    /\ \E j \in RejectionsOf(0) :
          /\ host.rejected[j].nb = 2
          /\ ProductOf(0, {0}) # ProductOf(0, {1})

(***************************************************************************)
(* The chain availability tracked by the heuristic separation.             *)
(***************************************************************************)
\* product of the section availabilities of the greedy state h of demand k
ProductOfSections(h, k) == getChainAvailability([j \in 1 .. NbVNFs(k) |-> h.sa[j - 1]])

\* the section availabilities of h are those of the positions at coefficient 0
SectionsMatchPositions(h, k) ==
    \A i \in Sections(k) :
        h.sa[i] = RCompl(getFailureProb({v \in Nodes : <<i, v>> \in h.zero}))

\* C20, as the code behaves: when the greedy loop ends, the section
\* availabilities are those of the chosen nodes; the tracked chain
\* availability is below the requirement and is the product of the section
\* availabilities only if the loop added no position: each increment is
\* computed from the required availability instead of the current chain
\* availability, so after an addition the tracked value exceeds the product.
C20_TrackedAvailabilityOverestimatesProduct ==
    \A j \in 1 .. Len(host.greedy) :
        LET g == host.greedy[j]
            k == g.cut.name[2]
            h0 == initiateHeuristic(k, ctx.point)
        IN /\ SectionsMatchPositions(g.h, k)
           /\ RLt(g.h.chain, getReqAvail(k))
           /\ g.h.zero = h0.zero => g.h.chain = ProductOfSections(g.h, k)
           /\ g.h.zero # h0.zero => RLt(ProductOfSections(g.h, k), g.h.chain)

\* a cut emitted after the loop added a position
C20_Witness ==
    \E j \in 1 .. Len(host.greedy) :
        LET g == host.greedy[j]
        IN /\ g.h.zero # initiateHeuristic(g.cut.name[2], ctx.point).zero
           /\ RLt(ProductOfSections(g.h, g.cut.name[2]), g.h.chain)

\* C20, as stated: the tracked chain availability is the product of the
\* current section availabilities
C20_TrackedAvailabilityIsProduct ==
    \A j \in 1 .. Len(host.greedy) :
        host.greedy[j].h.chain = ProductOfSections(host.greedy[j].h, host.greedy[j].cut.name[2])

(***************************************************************************)
(* The dynamic separation of the cover inequalities on any fractional      *)
(* snapshot: the pool is empty (no pool family is enabled), so addUserCuts *)
(* goes from getFractionalSolution to generalizedCoverSeparation and       *)
(* chainCoverSeparation, which are functions of the snapshot alone.        *)
(***************************************************************************)
CoverInput ==
    [AllOn EXCEPT !.nodeCover = FALSE, !.vnfLowerBound = FALSE, !.sectionFailure = FALSE,
                  !.lazy = FALSE, !.heuristic = FALSE, !.availabilityUsercuts = FALSE]

InitCover == \E d \in MainData : Constructed(d, CoverInput)

\* invoke, case Relaxation, up to the call of generalizedCoverSeparation,
\* the snapshot being any point of the grid
SeparateCovers ==
    /\ pc = "idle"
    /\ WithinBounds
    /\ \E point \in [XVars -> GridValues] :
         /\ ctx' = [NoContext EXCEPT !.id = "Relaxation", !.point = point]
         /\ xSol' = point
    /\ loc' = [NoLocals EXCEPT !.current_number_of_cuts = nbCuts]
    /\ trace' = <<Did("getFractionalSolution", 0), Did("checkCutPool", 0)>>
    /\ pc' = AfterPool(FALSE, nbCuts)
    /\ UNCHANGED <<thread_flag, constraints, data, input, cutPool, ySol, objSol,
                   remainingCapacity, nbCuts, nbLazyConstraints,
                   nb_cuts_avail_heuristic, host>>

NextCover ==
    \/ SeparateCovers
    \/ GeneralizedCoverSeparation
    \/ ChainCoverSeparation
    \/ RunHeuristic
    \/ Return

SpecCover == InitCover /\ [][NextCover]_vars

(***************************************************************************)
(* The chain-cover separation (callback.cpp, chainCoverSeparation).        *)
(***************************************************************************)
\* the mass of section i of demand k at a point: the sum of x over the nodes
SectionMass(x, k, i) == SumF([v \in Nodes |-> x[<<k, i, v>>]], Nodes)

MassOf(x, k, S) == SumF([i \in S |-> SectionMass(x, k, i)], S)

\* the least total mass of p sections of demand k
LeastMass(x, k, p) ==
    LET all == {MassOf(x, k, S) : S \in {T \in SUBSET Sections(k) : Cardinality(T) = p}}
    IN CHOOSE m \in all : \A n \in all : m <= n

\* the p least sections of demand k fall short of the bound for p sections
PrefixBelow(x, k, p) ==
    LeastMass(x, k, p) < getVnfLB(getReqAvail(k), p) * XUnit - EpsX

ChainCoverCutsFor(k) ==
    {j \in 1 .. Len(host.userCuts) :
        /\ host.userCuts[j].name[1] = "ChainCoverCut"
        /\ host.userCuts[j].name[2] = k}

ChainCoverRan == \E j \in 1 .. Len(trace) : trace[j].op = "chainCoverSeparation"

\* C21: once chainCoverSeparation has run on the relaxation point, every
\* demand has at most one chain-cover cut among the submitted user cuts; a
\* demand has none iff no prefix of its sections, taken in ascending order
\* of mass, falls short of its bound by more than EPS; and the cut of a
\* demand is the one of the smallest such prefix length p: its bound is the
\* minimum node count for p sections and its coefficients are 1 exactly on
\* the variables of p sections of least total mass.
C21_ChainCoverCutIsTheSmallestViolatedPrefix ==
    ChainCoverRan =>
        \A k \in Demands :
            LET cuts == ChainCoverCutsFor(k)
                viol == {p \in 1 .. NbVNFs(k) : PrefixBelow(ctx.point, k, p)}
            IN /\ Cardinality(cuts) <= 1
               /\ (cuts = {}) <=> (viol = {})
               /\ \A j \in cuts :
                    LET c == host.userCuts[j]
                        p == c.name[3]
                        S == {i \in Sections(k) : \E v \in Nodes : c.coef[<<k, i, v>>] # 0}
                    IN /\ p \in viol
                       /\ \A q \in viol : p <= q
                       /\ Cardinality(S) = p
                       /\ MassOf(ctx.point, k, S) = LeastMass(ctx.point, k, p)
                       /\ c.lb = getVnfLB(getReqAvail(k), p) * EpsInv
                       /\ ~c.hasUb
                       /\ c.coef = [t \in XVars |->
                                      IF t[1] = k /\ t[2] \in S THEN EpsInv ELSE 0]

\* one call submits a cut for a demand whose prefixes of length 1 and 2 are
\* both violated, for a demand whose prefix of length 2 alone is violated,
\* and none for a demand without a violated prefix
C21_Witness ==
    /\ ChainCoverRan
    /\ \E k \in Demands :
         /\ ChainCoverCutsFor(k) # {}
         /\ PrefixBelow(ctx.point, k, 1) /\ PrefixBelow(ctx.point, k, 2)
    /\ \E k \in Demands : ChainCoverCutsFor(k) = {}

(***************************************************************************)
(* The generalized cover separation (callback.cpp,                         *)
(* generalizedCoverSeparation).                                            *)
(***************************************************************************)
GenCoverCuts ==
    {j \in 1 .. Len(host.userCuts) : host.userCuts[j].name[1] = "GenCoverCut"}

GenCoverCalls ==
    {j \in 1 .. Len(trace) : trace[j].op = "generalizedCoverSeparation"}

\* the (demand, probe node, prefix length) triples violated at a point
GenCoverViolated(x) ==
    {t \in Demands \X Nodes \X (1 .. Len(VNFChain[1])) :
        t[3] <= NbVNFs(t[1]) /\ GenCoverViolatedAt(t[1], x, t[2], t[3])}

NodePosition(v) == CHOOSE n \in 1 .. NbNodes : NodeOrder[n] = v

\* t comes before u in the loops: demands, then probe nodes in the order of
\* the node iterator, then prefix lengths
GenCoverBefore(t, u) ==
    \/ t[1] < u[1]
    \/ t[1] = u[1] /\ NodePosition(t[2]) < NodePosition(u[2])
    \/ t[1] = u[1] /\ t[2] = u[2] /\ t[3] < u[3]

\* C22: once generalizedCoverSeparation has run in an invocation, it has run
\* once, the submitted user cuts hold at most one generalized cover cut, the
\* call counted exactly that many user cuts, there is one iff some (demand,
\* probe node, prefix length) is violated at the relaxation point, and it is
\* the cut of the first violated triple in iteration order.
C22_GeneralizedCoverSubmitsAtMostOneCut ==
    GenCoverCalls # {} =>
        LET viol == GenCoverViolated(ctx.point)
        IN /\ Cardinality(GenCoverCalls) = 1
           /\ Cardinality(GenCoverCuts) <= 1
           /\ \A j \in GenCoverCalls : trace[j].cuts = Cardinality(GenCoverCuts)
           /\ (GenCoverCuts = {}) <=> (viol = {})
           /\ \A j \in GenCoverCuts :
                LET n == host.userCuts[j].name
                    t == <<n[2], n[4], n[3]>>
                IN /\ t \in viol
                   /\ \A u \in viol : u = t \/ GenCoverBefore(t, u)

\* a call that submits one cut at a point where several triples are violated
C22_Witness ==
    /\ GenCoverCalls # {}
    /\ Cardinality(GenCoverCuts) = 1
    /\ Cardinality(GenCoverViolated(ctx.point)) >= 2

(***************************************************************************)
(* The node-cover cuts of the pool (callback.cpp,                          *)
(* addAvailabilityCoverConstraints).                                       *)
(***************************************************************************)
\* the pool entries that are the node-cover cut of (k, i, v)
NodeCoverCutsOf(k, i, v) ==
    {j \in 1 .. Len(cutPool) : cutPool[j].name = <<"NodeCover", k, i, v>>}

\* the nodes ranked before v, and the node of the preceding rank position
RankedBefore(v) == {j \in Nodes : getNodeRankPosition(j) < getNodeRankPosition(v)}

PrecedingRank(v) ==
    {j \in Nodes : getNodeRankPosition(j) + 1 = getNodeRankPosition(v)}

\* C23: with the node-cover family enabled, the pool holds a node-cover cut
\* for (k, i, v), and then exactly one, iff v is not the rank-0 node and
\* c(v) is strictly greater than c of the node of the preceding rank
\* position; the bound of the cut is c(v), without upper bound; the
\* coefficient of x[k,i,j] is max(c(v) - c(j) + 1, 1) for a node j ranked
\* before v and 1 for every other node, v included; the variables of other
\* demands and sections have coefficient 0.
C23_NodeCoverCutsOfThePool ==
    input.nodeCover =>
        \A t \in XVars :
            LET k == t[1]
                i == t[2]
                v == t[3]
                cuts == NodeCoverCutsOf(k, i, v)
            IN /\ Cardinality(cuts) <= 1
               /\ (cuts # {}) <=>
                     /\ RankedBefore(v) # {}
                     /\ \A j \in PrecedingRank(v) : NodeCoverC(k, v) > NodeCoverC(k, j)
               /\ \A n \in cuts :
                    /\ cutPool[n].lb = NodeCoverC(k, v) * EpsInv
                    /\ ~cutPool[n].hasUb
                    /\ \A u \in XVars :
                         cutPool[n].coef[u] =
                            IF u[1] # k \/ u[2] # i THEN 0
                            ELSE IF u[3] \in RankedBefore(v)
                                 THEN Max(NodeCoverC(k, v) - NodeCoverC(k, u[3]) + 1, 1) * EpsInv
                                 ELSE EpsInv

\* a pool with a node-cover cut for one demand and, for another demand, none
\* for the same node because c does not increase there; the rank-0 node has
\* no cut
C23_Witness ==
    /\ input.nodeCover
    /\ \E v \in Nodes : \E k1, k2 \in Demands :
         /\ NodeCoverCutsOf(k1, 0, v) # {}
         /\ NodeCoverCutsOf(k2, 0, v) = {}
         /\ RankedBefore(v) # {}
         /\ \A j \in PrecedingRank(v) : NodeCoverC(k2, v) = NodeCoverC(k2, j)
    /\ \A k \in Demands : NodeCoverCutsOf(k, 0, getAvailNodeRank[1]) = {}

(***************************************************************************)
(* The matheuristic alone, Phase II step by step: the test of the while    *)
(* loop and its body are separate steps.  The instances differ by the      *)
(* consumption factors of the VNFs, which may be zero.                     *)
(***************************************************************************)
RepairData ==
    {[avail |-> [v \in Nodes |-> IF v = 0 THEN ThreeQuarters ELSE Half],
      capacity |-> [v \in Nodes |-> 3],
      reqAvail |-> [k \in Demands |-> IF k = 0 THEN ThreeQuarters ELSE Half],
      bandwidth |-> [k \in Demands |-> 1],
      consumption |-> c,
      cost |-> [t \in YVars |-> 1 + t[1]]] : c \in [Vnfs -> {0, 1}]}

RepairInput ==
    [AllOn EXCEPT !.nodeCover = FALSE, !.vnfLowerBound = FALSE, !.sectionFailure = FALSE,
                  !.lazy = FALSE, !.chainCover = FALSE, !.availabilityUsercuts = FALSE]

InitRepair == \E d \in RepairData : Constructed(d, RepairInput)

\* a relaxation point whose entries are all 0.5: every outcome of the draws
\* of Phase I is possible
RepairPoint == [t \in XVars |-> XUnit \div 2]

\* invoke, case Relaxation, up to the call of Phase I: addUserCuts finds no
\* cut (the pool is empty, no separation is enabled) and heuristicRule
\* passes with a draw of 0
StartHeuristic ==
    /\ pc = "idle"
    /\ ctx.id = "None"
    /\ xSol' = RepairPoint
    /\ \E o \in ObjectivePairs :
          /\ ctx' = [NoContext EXCEPT !.id = "Relaxation", !.point = RepairPoint,
                                      !.incumbentObjective = o[1]]
          /\ loc' = [NoLocals EXCEPT !.current_number_of_cuts = nbCuts, !.OBJ = o[2]]
          /\ heuristicRule(o[2], o[1], 0)
    /\ trace' = <<Did("getFractionalSolution", 0), Did("checkCutPool", 0),
                  Did("runHeuristic", 0), Did("heuristicRule", 0)>>
    /\ pc' = "Phase_I"
    /\ UNCHANGED <<thread_flag, constraints, data, input, cutPool, ySol, objSol,
                   remainingCapacity, nbCuts, nbLazyConstraints,
                   nb_cuts_avail_heuristic, host>>

\* Phase II, the test of the while loop for the first demand from loc.k on
\* that is below its requirement; true is returned when there is none
Phase_II_While ==
    /\ pc = "Phase_II"
    /\ \E below \in {BelowFrom(loc.k)} :
          IF below = {}
          THEN /\ loc' = [loc EXCEPT !.k = Len(VNFChain), !.isFeasible = TRUE]
               /\ pc' = "afterPhase_II"
          ELSE /\ loc' = [loc EXCEPT !.k = CHOOSE d \in below : \A e \in below : d <= e]
               /\ pc' = "Phase_II_body"
    /\ trace' = IF trace[Len(trace)].op = "runHeuristic_Phase_II" THEN trace
                 ELSE Append(trace, Did("runHeuristic_Phase_II", 0))
    /\ UNCHANGED <<thread_flag, constraints, data, input, cutPool, xSol, ySol, objSol,
                   remainingCapacity, nbCuts, nbLazyConstraints,
                   nb_cuts_avail_heuristic, ctx, host>>

\* Phase II, the body of the while loop for demand k = loc.k, with i the
\* least available section and v the node of getNodeToInstall: false is
\* returned when there is no node
Phase_II_Install ==
    /\ pc = "Phase_II_body"
    /\ \E k \in {loc.k} :
       \E i \in {getSolutionAvail_k(xSol, k).leastAvailableSection} :
       \E v \in {getNodeToInstall(getVNF_i(k, i), k, ySol, remainingCapacity)} :
          IF v = 0 - 1
          THEN /\ loc' = [loc EXCEPT !.isFeasible = FALSE]
               /\ pc' = "afterPhase_II"
               /\ UNCHANGED <<xSol, ySol, objSol, remainingCapacity>>
          ELSE /\ xSol' = [xSol EXCEPT ![<<k, i, v>>] = XUnit]
               /\ remainingCapacity' = [remainingCapacity EXCEPT ![v] = @ - ReqCapacity(k, i)]
               /\ ySol' = [ySol EXCEPT ![<<v, getVNF_i(k, i)>>] = 1]
               /\ objSol' = IF ySol[<<v, getVNF_i(k, i)>>] = 0
                             THEN objSol + getPlacementCost(v, getVNF_i(k, i))
                             ELSE objSol
               /\ pc' = "Phase_II"
               /\ UNCHANGED loc
    /\ UNCHANGED <<thread_flag, constraints, data, input, cutPool, nbCuts, nbLazyConstraints,
                   nb_cuts_avail_heuristic, ctx, host, trace>>

NextRepair ==
    \/ StartHeuristic
    \/ Phase_I_y
    \/ Phase_I_x
    \/ Phase_II_While
    \/ Phase_II_Install
    \/ PostHeuristicSolution

SpecRepair == InitRepair /\ [][NextRepair]_vars

\* the thread that runs the callback keeps running: a step of the loop of
\* Phase II that can be taken is eventually taken
SpecRepairFair ==
    SpecRepair /\ WF_vars(Phase_II_While) /\ WF_vars(Phase_II_Install)

InPhaseII == pc \in {"Phase_II", "Phase_II_body"}

\* every assignment needs some capacity
PositiveRequirements ==
    {t \in Demands \X Vnfs : data.bandwidth[t[1]] * data.consumption[t[2]] <= 0} = {}

PhaseIIEntered == \E j \in 1 .. Len(trace) : trace[j].op = "runHeuristic_Phase_II"

\* Phase II is running on an input where every assignment needs some capacity
PositiveRepairRunning == PositiveRequirements /\ InPhaseII

\* C24, restricted to inputs where every assignment needs some capacity:
\* once entered, Phase II returns.
C24_RepairTerminatesWhenAssignmentsNeedCapacity ==
    PositiveRepairRunning ~> (pc = "afterPhase_II")

\* Phase II returned although an iteration picked a node already assigned
\* to the section (its capacity was decremented more than its load)
C24_Witness ==
    /\ PositiveRequirements
    /\ pc = "afterPhase_II"
    /\ \E v \in Nodes :
          remainingCapacity[v] + SumF([t \in XVars |->
                IF t[3] = v /\ xSol[t] = XUnit THEN ReqCapacity(t[1], t[2]) ELSE 0], XVars)
              < getCapacity(v)

\* C24, as stated: for every input, zero consumption factors included,
\* Phase II returns once entered
C24_RepairTerminates == InPhaseII ~> (pc = "afterPhase_II")

(***************************************************************************)
(* The iterations of the repair loop of Phase II.                          *)
(***************************************************************************)
\* the capacity of node v that the assignments of xSol need
AssignedLoad(v) ==
    SumF([t \in XVars |->
            IF t[3] = v /\ xSol[t] = XUnit
            THEN getBandwidth(t[1]) * getConsumption(getVNF_i(t[1], t[2])) ELSE 0], XVars)

\* the (demand, section, node) the body of the loop is about to assign;
\* the node is -1 when there is none
RepairChoice ==
    LET i == getSolutionAvail_k(xSol, loc.k).leastAvailableSection
    IN <<loc.k, i, getNodeToInstall(getVNF_i(loc.k, i), loc.k, ySol, remainingCapacity)>>

RepairInstalls == pc = "Phase_II_body" /\ RepairChoice[3] # 0 - 1

\* C25, amended: every iteration of the repair loop assigns a node with
\* enough remaining capacity to a least available section of the demand,
\* which is below its requirement; the node may already be assigned to
\* that section.  The remaining capacity of a node is never negative and
\* is at most its capacity minus the load of the assignments made: it is
\* decremented at least once per (demand, section, node) assignment.
C25_RepairAssignsToLeastAvailableSection ==
    /\ RepairInstalls =>
          LET k == RepairChoice[1]
              i == RepairChoice[2]
              v == RepairChoice[3]
          IN /\ RLt(getSolutionAvail_k(xSol, k).availability, getReqAvail(k))
             /\ \A j \in Sections(k) :
                   RLe(SolutionSectionAvail(xSol, k, i), SolutionSectionAvail(xSol, k, j))
             /\ getBandwidth(k) * getConsumption(getVNF_i(k, i)) <= remainingCapacity[v]
    /\ pc \in {"Phase_II", "Phase_II_body", "afterPhase_II"} =>
          \A v \in Nodes :
              /\ remainingCapacity[v] >= 0
              /\ remainingCapacity[v] + AssignedLoad(v) <= getCapacity(v)

\* the body of the loop is about to assign a node that the section already
\* holds, on an input where the assignment needs capacity
C25_Witness ==
    /\ RepairInstalls
    /\ xSol[RepairChoice] = XUnit
    /\ getBandwidth(RepairChoice[1])
          * getConsumption(getVNF_i(RepairChoice[1], RepairChoice[2])) > 0

\* C25, as stated: every iteration assigns a node that was not already
\* assigned to the section, and the remaining capacity of a node is its
\* capacity minus the load of its assignments (one decrement per
\* assignment)
C25_RepairAssignsANewNode ==
    /\ RepairInstalls => xSol[RepairChoice] # XUnit
    /\ pc \in {"Phase_II", "Phase_II_body", "afterPhase_II"} =>
          \A v \in Nodes : remainingCapacity[v] + AssignedLoad(v) = getCapacity(v)

(***************************************************************************)
(* The two reads of the user-cut counter in invoke, with several workers.  *)
(***************************************************************************)
\* worker w has passed the test of invoke after addUserCuts
Decided(w) == ctx[w].id = "Relaxation" /\ pc[w] \in {"return", "idle"}

\* C26, as the code behaves: an invocation that calls runHeuristic has
\* submitted no user cut; an invocation that submitted no user cut and does
\* not call runHeuristic has read a counter that other invocations had
\* advanced past the value it read at its start.
C26_HeuristicLaunchedOnlyWithoutOwnCut ==
    \A w \in Workers :
        Decided(w) =>
            /\ loc[w].launched => host[w].userCuts = <<>>
            /\ (host[w].userCuts = <<>> /\ ~loc[w].launched)
                  => nbCuts > loc[w].current_number_of_cuts

\* an invocation that submitted no user cut has not called runHeuristic,
\* after another worker's invocation submitted one between its two reads
C26_Witness ==
    \E w, u \in Workers :
        /\ Decided(w) /\ host[w].userCuts = <<>> /\ ~loc[w].launched
        /\ u # w /\ host[u].userCuts # <<>>
        /\ nbCuts > loc[w].current_number_of_cuts

\* C26, as stated: an invocation calls runHeuristic iff it submitted no
\* user cut itself, whatever the other workers do
C26_HeuristicLaunchedIffNoOwnCut ==
    \A w \in Workers :
        Decided(w) => (loc[w].launched <=> host[w].userCuts = <<>>)

(***************************************************************************)
(* The cut pool after the constructor.                                     *)
(***************************************************************************)
\* the families of cuts that setCutPool builds
PoolFamilies == {"NodeCover", "VNF_LowerBound", "Section_Fail"}

\* the user cuts of the current invocation that come from a separation
\* routine and not from the pool
SeparatedCuts ==
    {j \in 1 .. Len(host.userCuts) : host.userCuts[j].name[1] \notin PoolFamilies}

\* C27: in every reachable state the pool is the sequence of cuts that the
\* constructor built from the instance and the configuration (same size,
\* same entries), its entries belong to the three pool families, and no cut
\* submitted by a separation routine is an entry of the pool.
C27_CutPoolIsWriteOnce ==
    /\ cutPool = setCutPool
    /\ \A n \in 1 .. Len(cutPool) : cutPool[n].name[1] \in PoolFamilies
    /\ \A j \in SeparatedCuts :
          \A n \in 1 .. Len(cutPool) : cutPool[n] # host.userCuts[j]

\* an invocation has found no pool cut violated and has submitted a cut of
\* the dynamic separation, and the pool is not empty
C27_Witness ==
    /\ nb_cuts_avail_heuristic > 0
    /\ SeparatedCuts # {}
    /\ cutPool # <<>>

(***************************************************************************)
(* What lift changes in the snapshot.                                      *)
(***************************************************************************)
\* product of the availabilities of the sections S of demand k under x
RECURSIVE PrefixAvailability(_, _, _)
PrefixAvailability(x, k, S) ==
    IF S = {} THEN ROne
    ELSE LET i == CHOOSE j \in S : TRUE
         IN RMul(getAvailabilityOfSection(k, i, x), PrefixAvailability(x, k, S \ {i}))

\* the entries of the snapshot that differ from the candidate point
LiftedEntries == {t \in XVars : xSol[t] # ctx.point[t]}

\* C28: after a candidate invocation, every entry of xSol that differs from
\* the candidate belongs to a rejected demand and to a section of its
\* selected prefix, was unassigned and is now 1; the product of the
\* availabilities of the prefix sections is still strictly below the
\* requirement after all the changes; and each demand is rejected iff the
\* candidate itself leaves it below its requirement, whatever was lifted
\* for the demands before it.
C28_LiftChangesOnlyThePrefixOfItsDemand ==
    CandidateChecked =>
        /\ \A t \in LiftedEntries :
              /\ ~IsPlaced(ctx.point[t])
              /\ xSol[t] = XUnit
              /\ \E j \in 1 .. Len(host.rejected) :
                    host.rejected[j].k = t[1] /\ t[2] \in host.rejected[j].sections
        /\ \A j \in 1 .. Len(host.rejected) :
              RLt(PrefixAvailability(xSol, host.rejected[j].k, host.rejected[j].sections),
                  getReqAvail(host.rejected[j].k))
        /\ \A k \in Demands : RejectedFor(k) <=> ~MeetsSLA(ctx.point, k)

\* both demands are rejected, lift has added a node to the one-section
\* prefix of the two-section demand, whose other section is left as it was
C28_Witness ==
    /\ CandidateChecked
    /\ Len(host.rejected) = 2
    /\ \E j \in 1 .. Len(host.rejected) :
          /\ host.rejected[j].k = 0
          /\ host.rejected[j].nb = 1
          /\ \E t \in LiftedEntries : t[1] = 0
          /\ \E t \in XVars : t[1] = 0 /\ t[2] \notin host.rejected[j].sections
                               /\ ~IsPlaced(xSol[t])

(***************************************************************************)
(* The nogood against the candidate it rejects.                            *)
(***************************************************************************)
\* left-hand side of the nogood over the variables V at the point A, in
\* units of 1 / XUnit
NogoodValue(V, A) == SumF([t \in XVars |-> IF t \in V THEN A[t] ELSE 0], XVars)

\* C30: every variable of a nogood passed to rejectCandidate has value 0 in
\* the rejected candidate (it is below 1 - EPS there), so the left-hand side
\* of the nogood at the candidate is 0, below its lower bound 1.
C30_CandidateViolatesItsNogood ==
    CandidateChecked =>
        \A j \in 1 .. Len(host.rejected) :
            /\ \A t \in host.rejected[j].vars :
                  ctx.point[t] = 0 /\ ~IsPlaced(ctx.point[t])
            /\ NogoodValue(host.rejected[j].vars, ctx.point) = 0
            /\ NogoodValue(host.rejected[j].vars, ctx.point) < XUnit

\* a candidate that assigns a node to a section of the violated prefix has
\* been rejected by a nogood that still has variables after lift
C30_Witness ==
    /\ CandidateChecked
    /\ \E j \in 1 .. Len(host.rejected) :
          /\ host.rejected[j].vars # {}
          /\ LiftedEntries # {}
          /\ \E t \in XVars : /\ t[1] = host.rejected[j].k
                               /\ t[2] \in host.rejected[j].sections
                               /\ ctx.point[t] = XUnit

(***************************************************************************)
(* The solutions the matheuristic builds.                                  *)
(***************************************************************************)
\* Phase I is over and the matheuristic holds a solution in xSol, ySol
SolutionBuilt == pc \in {"Phase_II", "Phase_II_body", "afterPhase_II"}

\* every assignment of x uses a placed VNF of y
AssignedOnlyWherePlaced(x, y) ==
    \A t \in XVars : x[t] = XUnit => y[<<t[3], getVNF_i(t[1], t[2])>>] = 1

\* C29: after Phase I and after every step of Phase II, xSol[k][i][v] = 1
\* implies ySol[v][f] = 1 for the VNF f of section i of demand k, and objSol
\* is the sum of the placement costs of the pairs with ySol = 1; the same
\* holds of every solution passed to postHeuristicSolution, whose objective
\* value is objSol.
C29_BuiltSolutionLinksAssignmentToPlacement ==
    /\ SolutionBuilt =>
          /\ AssignedOnlyWherePlaced(xSol, ySol)
          /\ objSol = PostedObjective(ySol)
    /\ \A j \in 1 .. Len(host.posted) :
          /\ AssignedOnlyWherePlaced(host.posted[j].x, host.posted[j].y)
          /\ host.posted[j].objVal = PostedObjective(host.posted[j].y)
          /\ host.posted[j].objVal = objSol

\* a solution has been posted in which some node is assigned, and in which
\* a placed VNF serves no assignment
C29_Witness ==
    /\ host.posted # <<>>
    /\ \E t \in XVars : xSol[t] = XUnit
    /\ \E u \in YVars :
          /\ ySol[u] = 1
          /\ \A t \in XVars : xSol[t] = XUnit => <<t[3], getVNF_i(t[1], t[2])>> # u

====
